---- MODULE Spec2Model ----
(***************************************************************************)
(* Model of the ingestion-and-deduplication pipeline of finagent:          *)
(*   tools/normalization.py, tools/csv_ingest.py, tools/excel_ingest.py,   *)
(*   tools/pdf_ingest.py.                                                  *)
(*                                                                         *)
(* Strings are sequences of one-character strings.  The non-breaking space *)
(* U+00A0 is the single symbol "NBSP".  sha256 is modelled as an injective *)
(* function (the digest of a byte string is the byte string itself).       *)
(***************************************************************************)
EXTENDS Integers, Sequences, FiniteSets, TLC

VARIABLES documents, accounts, transactions, parse_events,  \* the connection's view of the tables
          categories,  \* the categories table (written by the categorizer only)
          committed,   \* the tables as of the last commit
          modules,     \* the importable optional libraries
          calls,       \* the finished ingest calls, oldest first
          fin, fout    \* argument and result of a function applied on its own

vars == <<documents, accounts, transactions, parse_events, categories, committed, modules,
          calls, fin, fout>>
storeVars == <<documents, accounts, transactions, parse_events, categories, committed, modules,
               calls>>

\* Python's None
None == <<"None">>

(***************************************************************************)
(* Characters and Python str methods                                       *)
(***************************************************************************)
Digits == {"0", "1", "2", "3", "4", "5", "6", "7", "8", "9"}
LowerLetters == <<"a","b","c","d","e","f","g","h","i","j","k","l","m",
                  "n","o","p","q","r","s","t","u","v","w","x","y","z">>
UpperLetters == <<"A","B","C","D","E","F","G","H","I","J","K","L","M",
                  "N","O","P","Q","R","S","T","U","V","W","X","Y","Z">>
Whitespace == {" ", "NBSP"}

IsDigit(c) == c \in Digits
IsSpace(c) == c \in Whitespace
\* \w of the re module: letters, digits and underscore
IsWord(c) == \/ c \in Digits
             \/ c = "_"
             \/ \E i \in 1..26 : c = LowerLetters[i] \/ c = UpperLetters[i]

DigitVal(c) == CASE c = "0" -> 0 [] c = "1" -> 1 [] c = "2" -> 2 [] c = "3" -> 3
                 [] c = "4" -> 4 [] c = "5" -> 5 [] c = "6" -> 6 [] c = "7" -> 7
                 [] c = "8" -> 8 [] c = "9" -> 9
DigitChar(n) == <<"0", "1", "2", "3", "4", "5", "6", "7", "8", "9">>[n + 1]

LowerChar(c) == IF \E i \in 1..26 : c = UpperLetters[i]
                THEN LowerLetters[CHOOSE i \in 1..26 : c = UpperLetters[i]]
                ELSE c
UpperChar(c) == IF \E i \in 1..26 : c = LowerLetters[i]
                THEN UpperLetters[CHOOSE i \in 1..26 : c = LowerLetters[i]]
                ELSE c

\* str.lower(), str.upper()
Lower(s) == [i \in 1..Len(s) |-> LowerChar(s[i])]
Upper(s) == [i \in 1..Len(s) |-> UpperChar(s[i])]

\* str.isdigit(): non-empty and every character a digit
StrIsDigit(s) == Len(s) > 0 /\ \A i \in 1..Len(s) : IsDigit(s[i])

\* str.strip()
Strip(s) ==
    LET ink == {i \in 1..Len(s) : ~IsSpace(s[i])}
    IN IF ink = {} THEN <<>>
       ELSE SubSeq(s, CHOOSE i \in ink : \A j \in ink : i <= j,
                      CHOOSE i \in ink : \A j \in ink : i >= j)

\* str.replace(c, "") and str.replace(c, r) for one-character c and r
Remove(s, c) == SelectSeq(s, LAMBDA x : x # c)
Translate(s, c, r) == [i \in 1..Len(s) |-> IF s[i] = c THEN r ELSE s[i]]

\* the subsequence of s at the positions satisfying Keep
SelectAt(s, Keep(_)) ==
    LET tagged == [i \in 1..Len(s) |-> <<s[i], Keep(i)>>]
        kept == SelectSeq(tagged, LAMBDA p : p[2])
    IN [i \in 1..Len(kept) |-> kept[i][1]]

\* c in s
Contains(s, c) == \E i \in 1..Len(s) : s[i] = c

Pow10(k) == CASE k = 0 -> 1 [] k = 1 -> 10 [] k = 2 -> 100 [] k = 3 -> 1000
              [] k = 4 -> 10000 [] k = 5 -> 100000 [] k = 6 -> 1000000
              [] k = 7 -> 10000000 [] k = 8 -> 100000000 [] k = 9 -> 1000000000

\* value of a string of digits
RECURSIVE DigitsToInt(_)
DigitsToInt(s) == IF s = <<>> THEN 0
                  ELSE DigitsToInt(SubSeq(s, 1, Len(s) - 1)) * 10 + DigitVal(s[Len(s)])

\* str(n) for an integer n >= 0
RECURSIVE IntToStr(_)
IntToStr(n) == IF n < 10 THEN <<DigitChar(n)>>
               ELSE IntToStr(n \div 10) \o <<DigitChar(n % 10)>>

Abs(n) == IF n < 0 THEN 0 - n ELSE n

(***************************************************************************)
(* normalization.py: parse_eu_amount_to_cents                              *)
(***************************************************************************)
\* A raised exception or a returned value
Raise(e) == [exc |-> e, val |-> 0]
Return(v) == [exc |-> "", val |-> v]

\* float(s) for s over digits, '.', '+', '-' and other symbols: the decimal
\* literal [sign] digits [. digits] with at least one digit, as a pair
\* mantissa / 10^decimals; anything else raises ValueError.  (Exponents,
\* inf/nan and underscores are not in the bounded alphabet.)
FloatBody(s) == IF s # <<>> /\ Head(s) \in {"+", "-"} THEN Tail(s) ELSE s
FloatValid(s) ==
    LET b == FloatBody(s)
    IN /\ \A i \in 1..Len(b) : IsDigit(b[i]) \/ b[i] = "."
       /\ Cardinality({i \in 1..Len(b) : b[i] = "."}) <= 1
       /\ \E i \in 1..Len(b) : IsDigit(b[i])
FloatNeg(s) == s # <<>> /\ Head(s) = "-"
FloatDecimals(s) ==
    LET b == FloatBody(s)
    IN IF Contains(b, ".") THEN Len(b) - (CHOOSE i \in 1..Len(b) : b[i] = ".") ELSE 0
FloatMantissa(s) == DigitsToInt(Remove(FloatBody(s), "."))

\* Decimal ties x.xx5 where the binary64 product float(s) * 100 lies above
\* the tie or is the tie with an odd integer part, so that round() goes up
\* (IEEE-754 round-to-nearest of the literal and of the product), tabulated
\* as <<mantissa, decimals>> for the bounded amount strings.
FloatTieUp ==
    {<<15,3>>, <<55,3>>, <<115,3>>, <<150,4>>, <<155,3>>, <<515,3>>, <<550,4>>, <<555,3>>,
     <<1055,3>>, <<1115,3>>, <<1150,4>>, <<1155,3>>, <<1500,5>>, <<1515,3>>, <<1550,4>>,
     <<1555,3>>, <<2675,3>>, <<5055,3>>, <<5105,3>>, <<5115,3>>, <<5150,4>>, <<5155,3>>,
     <<5500,5>>, <<5515,3>>, <<5550,4>>, <<5555,3>>}

\* int(round(float(s) * 100)) on the magnitude m / 10^k
RoundCents(m, k) ==
    IF k <= 2 THEN m * Pow10(2 - k)
    ELSE LET d == Pow10(k - 2)
             q == m \div d
             r == m % d
         IN IF 2 * r < d THEN q
            ELSE IF 2 * r > d THEN q + 1
            ELSE IF <<m, k>> \in FloatTieUp THEN q + 1 ELSE q

\* the text handed to float(): no thousands separators, no spaces, a decimal
\* point for the decimal comma
DecimalPoint(s) == IF Contains(s, ",") THEN Translate(s, ",", ".") ELSE s
FloatText(amount_str) ==
    DecimalPoint(Remove(Translate(Remove(Strip(amount_str), "."), "NBSP", " "), " "))

\* -abs(cents) for the debit token, abs(cents) otherwise
SignedCents(cents, debit_credit) ==
    IF Lower(Strip(debit_credit)) = <<"a", "f">> THEN 0 - Abs(cents) ELSE Abs(cents)

\* int(round(float(s) * 100)), or the ValueError of float(s)
CentsOfFloat(s) ==
    IF ~FloatValid(s) THEN Raise("ValueError")
    ELSE Return((IF FloatNeg(s) THEN 0 - 1 ELSE 1)
                * RoundCents(FloatMantissa(s), FloatDecimals(s)))

\* the result r of a step that can raise, mapped by F when it returned
OnReturn(r, F(_)) == IF r.exc # "" THEN r ELSE Return(F(r.val))

\* Variant: the sign of the amount string is kept for a credit
parse_eu_amount_to_cents_keepsign(amount_str, debit_credit) ==
    OnReturn(CentsOfFloat(FloatText(amount_str)),
             LAMBDA cents : IF Lower(Strip(debit_credit)) = <<"a", "f">>
                            THEN 0 - Abs(cents) ELSE cents)

parse_eu_amount_to_cents(amount_str, debit_credit) ==
    OnReturn(CentsOfFloat(FloatText(amount_str)),
             LAMBDA cents : SignedCents(cents, debit_credit))

(***************************************************************************)
(* Regular-expression helpers (re module, leftmost greedy matching)        *)
(***************************************************************************)
\* the literal lit occurs in s at position i (IGNORECASE when ci)
MatchLit(s, i, lit, ci) ==
    /\ i + Len(lit) - 1 <= Len(s)
    /\ \A j \in 1..Len(lit) :
          IF ci THEN LowerChar(s[i + j - 1]) = LowerChar(lit[j])
          ELSE s[i + j - 1] = lit[j]

\* \s* from position i: the position after the whitespace run
RECURSIVE SkipWs(_, _)
SkipWs(s, i) == IF i <= Len(s) /\ IsSpace(s[i]) THEN SkipWs(s, i + 1) ELSE i
\* length of the run of digits / of non-whitespace characters from position i
RECURSIVE DigitRun(_, _)
DigitRun(s, i) == IF i <= Len(s) /\ IsDigit(s[i]) THEN 1 + DigitRun(s, i + 1) ELSE 0
RECURSIVE NonSpaceRun(_, _)
NonSpaceRun(s, i) == IF i <= Len(s) /\ ~IsSpace(s[i]) THEN 1 + NonSpaceRun(s, i + 1) ELSE 0

\* \d{2}-\d{2}-\d{4} at position i
MatchDate10(s, i) ==
    /\ i + 9 <= Len(s)
    /\ \A j \in {0, 1, 3, 4, 6, 7, 8, 9} : IsDigit(s[i + j])
    /\ s[i + 2] = "-" /\ s[i + 5] = "-"
\* \d{2}:\d{2}:\d{2} at position i
MatchTime8(s, i) ==
    /\ i + 7 <= Len(s)
    /\ \A j \in {0, 1, 3, 4, 6, 7} : IsDigit(s[i + j])
    /\ s[i + 2] = ":" /\ s[i + 5] = ":"

\* calendar
IsLeap(y) == (y % 4 = 0 /\ y % 100 # 0) \/ y % 400 = 0
DaysInMonth(m, y) == CASE m \in {1, 3, 5, 7, 8, 10, 12} -> 31
                       [] m \in {4, 6, 9, 11} -> 30
                       [] m = 2 -> IF IsLeap(y) THEN 29 ELSE 28
ValidYMD(y, m, d) == y >= 1 /\ m \in 1..12 /\ d >= 1 /\ d <= DaysInMonth(m, y)

\* datetime.strptime(t, "%d-%m-%Y").date().isoformat() for t matching
\* \d{2}-\d{2}-\d{4}; ValueError when it is no calendar day
StrptimeDMY(t) ==
    LET d == DigitsToInt(SubSeq(t, 1, 2))
        m == DigitsToInt(SubSeq(t, 4, 5))
        y == DigitsToInt(SubSeq(t, 7, 10))
    IN IF ValidYMD(y, m, d)
       THEN Return(SubSeq(t, 7, 10) \o <<"-">> \o SubSeq(t, 4, 5) \o <<"-">> \o SubSeq(t, 1, 2))
       ELSE Raise("ValueError")

(***************************************************************************)
(* normalization.py: try_extract_value_date, normalize_text,               *)
(* normalize_description, compute_txn_hash                                 *)
(***************************************************************************)
KwValutadatum == <<"V", "a", "l", "u", "t", "a", "d", "a", "t", "u", "m", ":">>

\* _VALUTADATUM_RE matched at position i: start of the date group, or 0
ValutadatumAt(s, i) ==
    IF MatchLit(s, i, KwValutadatum, FALSE)
       /\ MatchDate10(s, SkipWs(s, i + Len(KwValutadatum)))
    THEN SkipWs(s, i + Len(KwValutadatum)) ELSE 0

\* None, the ISO date, or ValueError from strptime
try_extract_value_date(text) ==
    IF \A i \in 1..Len(text) : ValutadatumAt(text, i) = 0 THEN Return(None)
    ELSE LET i == CHOOSE i \in 1..Len(text) :
                     /\ ValutadatumAt(text, i) # 0
                     /\ \A j \in 1..(i - 1) : ValutadatumAt(text, j) = 0
             g == ValutadatumAt(text, i)
         IN StrptimeDMY(SubSeq(text, g, g + 9))

\* re.sub(r"\s+", " ", v)
CollapseWs(s) ==
    LET first == SelectAt(s, LAMBDA i : ~IsSpace(s[i]) \/ i = 1 \/ ~IsSpace(s[i - 1]))
    IN [i \in 1..Len(first) |-> IF IsSpace(first[i]) THEN " " ELSE first[i]]

\* unicodedata.normalize("NFKD", v): the no-break space decomposes to a space,
\* the other symbols of the model are their own decomposition
NFKD(s) == Translate(s, "NBSP", " ")

normalize_text(value) == CollapseWs(NFKD(Strip(value)))

KwDatumTijd == <<"D", "a", "t", "u", "m", "/", "T", "i", "j", "d", ":">>
KwPasvolgnr == <<"P", "a", "s", "v", "o", "l", "g", "n", "r", ":">>
KwTerm == <<"T", "e", "r", "m", ":">>
KwApplePay == <<"A", "p", "p", "l", "e", " ", "P", "a", "y">>
KwTransactie == <<"T", "r", "a", "n", "s", "a", "c", "t", "i", "e", ":">>
\* the patterns of normalize_description, in the order they are applied
VolatilePatterns == <<"datumtijd", "pasvolgnr", "term", "applepay", "transactie">>

\* pattern p matched at position i of s (IGNORECASE): the position after the
\* match, or 0 when it does not match there
MatchEnd(p, s, i) ==
    CASE p = "datumtijd" ->
           IF MatchLit(s, i, KwDatumTijd, TRUE)
           THEN LET j == SkipWs(s, i + Len(KwDatumTijd))
                IN IF MatchDate10(s, j) /\ MatchTime8(s, SkipWs(s, j + 10))
                   THEN SkipWs(s, j + 10) + 8 ELSE 0
           ELSE 0
      [] p = "pasvolgnr" ->
           IF MatchLit(s, i, KwPasvolgnr, TRUE)
           THEN LET j == SkipWs(s, i + Len(KwPasvolgnr))
                IN IF DigitRun(s, j) > 0 THEN j + DigitRun(s, j) ELSE 0
           ELSE 0
      [] p = "term" ->
           IF MatchLit(s, i, KwTerm, TRUE)
           THEN LET j == SkipWs(s, i + Len(KwTerm))
                IN IF NonSpaceRun(s, j) > 0 THEN j + NonSpaceRun(s, j) ELSE 0
           ELSE 0
      [] p = "applepay" ->
           IF MatchLit(s, i, KwApplePay, TRUE) THEN i + Len(KwApplePay) ELSE 0
      [] p = "transactie" ->
           IF MatchLit(s, i, KwTransactie, TRUE)
           THEN LET j == SkipWs(s, i + Len(KwTransactie))
                IN IF NonSpaceRun(s, j) > 0 THEN j + NonSpaceRun(s, j) ELSE 0
           ELSE 0

\* re.sub(p, "", s) from position i on: the text up to the leftmost match at
\* or after i is kept, the match is dropped, the scan resumes after it
RECURSIVE SubFrom(_, _, _)
SubFrom(p, s, i) ==
    LET starts == {n \in i..Len(s) : MatchEnd(p, s, n) > 0}
    IN IF starts = {} THEN SubSeq(s, i, Len(s))
       ELSE LET n == CHOOSE n \in starts : \A k \in starts : n <= k
            IN SubSeq(s, i, n - 1) \o SubFrom(p, s, MatchEnd(p, s, n))

RECURSIVE SubAll(_, _, _)
SubAll(ps, n, s) == IF n > Len(ps) THEN s ELSE SubAll(ps, n + 1, SubFrom(ps[n], s, 1))

\* Variant: the terminal identifier is not stripped
normalize_description_keepterm(desc) ==
    Strip(CollapseWs(SubAll(<<"datumtijd", "pasvolgnr", "applepay", "transactie">>, 1,
                            normalize_text(desc))))

normalize_description(desc) ==
    Strip(CollapseWs(SubAll(VolatilePatterns, 1, normalize_text(desc))))

\* str(n) for any integer
SignedIntToStr(n) == IF n < 0 THEN <<"-">> \o IntToStr(0 - n) ELSE IntToStr(n)

\* "|".join(parts)
RECURSIVE Join(_)
Join(parts) == IF Len(parts) = 0 THEN <<>>
               ELSE IF Len(parts) = 1 THEN parts[1]
               ELSE parts[1] \o <<"|">> \o Join(Tail(parts))

\* inp: a TxnHashInput record; the digest is the encoded blob itself
compute_txn_hash(inp) ==
    Join(<< IntToStr(inp.account_id),
            inp.booking_date,
            IF inp.value_date = None THEN <<>> ELSE inp.value_date,
            SignedIntToStr(inp.amount_cents),
            Upper(inp.currency),
            Upper(inp.debit_credit),
            Upper(normalize_text(inp.counterparty_iban_or_name)),
            Upper(inp.normalized_description) >>)

(***************************************************************************)
(* The relational store.  Tables are sequences, a row's id is its index    *)
(* (rows are never deleted).  NULL is None.                                *)
(*   documents:    [path, sha256, source_type, bank_hint]                  *)
(*   accounts:     [institution, iban, account_no]                         *)
(*   transactions: [account_id, document_id, txn_hash, booking_date,       *)
(*                  value_date, amount_cents, currency, debit_credit,      *)
(*                  counterparty_name, counterparty_iban, description,     *)
(*                  category_id]                                           *)
(*   parse_events: [document_id, stage, ok, message]                       *)
(* The schema file (db/schema.sql) is not part of the sources; its         *)
(* constraints follow the persisted schema of the specification.           *)
(***************************************************************************)
ING == <<"I", "N", "G">>
EUR == <<"E", "U", "R">>
DEBIT == <<"D", "E", "B", "I", "T">>
CREDIT == <<"C", "R", "E", "D", "I", "T">>
UNKNOWN_PDF == <<"U", "N", "K", "N", "O", "W", "N", "_", "P", "D", "F">>

\* Variant: the lookup by content hash finds nothing
DocumentIdOf_never(docs, sha) == 0

\* SELECT id FROM documents WHERE sha256=? (fetchone: 0 when there is none)
DocumentIdOf(docs, sha) ==
    IF \E i \in 1..Len(docs) : docs[i].sha256 = sha
    THEN CHOOSE i \in 1..Len(docs) : docs[i].sha256 = sha
    ELSE 0

\* transactions(fingerprint_hash UNIQUE)
TxnHashConflict(txs, hash) == \E i \in 1..Len(txs) : txs[i].txn_hash = hash

\* accounts: identity (institution, iban, account_no) with null-aware equality
AccountConflict(accs, inst, iban, account_no) ==
    \E i \in 1..Len(accs) : /\ accs[i].institution = inst
                            /\ accs[i].iban = iban
                            /\ accs[i].account_no = account_no

\* transactions.category_id: nullable, not set by an insert that omits it
\* (NULL is 0 in this column, the ids of categories count from 1)
DefaultCategory == 0

\* SELECT id FROM accounts WHERE institution=? AND iban IS ? AND account_no IS ?
\* (fetchone: the first matching row, 0 when there is none)
SelectAccountId(accs, inst, iban, account_no) ==
    LET hits == {i \in 1..Len(accs) : /\ accs[i].institution = inst
                                       /\ accs[i].iban = iban
                                       /\ accs[i].account_no = account_no}
    IN IF hits = {} THEN 0 ELSE CHOOSE i \in hits : \A j \in hits : i <= j

\* INSERT INTO parse_events(document_id, stage, ok, message)
Event(doc_id, stage, ok, text, exc, seen, new) ==
    [document_id |-> doc_id, stage |-> stage, ok |-> ok,
     message |-> [text |-> text, exc |-> exc, seen |-> seen, new |-> new]]

\* Variant: the lookup is skipped and a row is always inserted
ensure_account_always_insert(accs, iban, account_no) ==
    [accounts |-> Append(accs, [institution |-> ING, iban |-> iban, account_no |-> account_no]),
     id |-> Len(accs) + 1]

\* csv_ingest._ensure_account: the accounts table afterwards and the id
ensure_account(accs, iban, account_no) ==
    IF SelectAccountId(accs, ING, iban, account_no) # 0
    THEN [accounts |-> accs, id |-> SelectAccountId(accs, ING, iban, account_no)]
    ELSE [accounts |-> Append(accs, [institution |-> ING, iban |-> iban, account_no |-> account_no]),
          id |-> Len(accs) + 1]

\* "DEBIT" if debit_credit.lower() == "af" else "CREDIT"
DirectionOf(debit_credit) == IF Lower(debit_credit) = <<"a", "f">> THEN DEBIT ELSE CREDIT

\* Variant: INSERT OR REPLACE, the conflicting row is replaced by the new one
insert_or_replace_transaction(txs, rec) ==
    [transactions |->
        Append(SelectSeq(txs, LAMBDA t : t.txn_hash # rec.txn_hash), rec),
     changes |-> 1]

\* INSERT OR IGNORE INTO transactions(...) followed by SELECT changes()
insert_or_ignore_transaction(txs, rec) ==
    IF TxnHashConflict(txs, rec.txn_hash)
    THEN [transactions |-> txs, changes |-> 0]
    ELSE [transactions |-> Append(txs, rec), changes |-> 1]

\* Variant: the row is counted new whether or not the insert took place
CountNew_always(tx_new, changes) == tx_new + 1

\* if int(conn.execute("SELECT changes()").fetchone()[0]) > 0: stats.tx_new += 1
CountNew(tx_new, changes) == IF changes > 0 THEN tx_new + 1 ELSE tx_new

\* The canonical fields of a row: fingerprint and insert, shared by the
\* delimited-text and spreadsheet parsers (csv_ingest.py 107-146,
\* excel_ingest.py 144-186).  st: the tables and counters during a call.
StoreRow(st, doc_id, f, iban) ==
    LET acc == ensure_account(st.accounts, iban, None)
        hash == compute_txn_hash(
                  [account_id |-> acc.id,
                   booking_date |-> f.booking_iso,
                   value_date |-> f.value_date,
                   amount_cents |-> f.amount_cents,
                   currency |-> EUR,
                   debit_credit |-> DirectionOf(f.debit_credit),
                   counterparty_iban_or_name |->
                       IF f.counterparty_iban # None THEN f.counterparty_iban
                       ELSE IF f.counterparty_name # None THEN f.counterparty_name
                       ELSE <<>>,
                   normalized_description |-> normalize_description(f.description)])
        ins == insert_or_ignore_transaction(st.transactions,
                  [account_id |-> acc.id,
                   document_id |-> doc_id,
                   txn_hash |-> hash,
                   booking_date |-> f.booking_iso,
                   value_date |-> f.value_date,
                   amount_cents |-> f.amount_cents,
                   currency |-> EUR,
                   debit_credit |-> DirectionOf(f.debit_credit),
                   counterparty_name |-> f.counterparty_name,
                   counterparty_iban |-> f.counterparty_iban,
                   description |-> f.description,
                   category_id |-> DefaultCategory])
    IN [st EXCEPT !.accounts = acc.accounts,
                  !.transactions = ins.transactions,
                  !.tx_new = CountNew(@, ins.changes),
                  !.resolved = @ \cup {<<ING, iban, None, acc.id>>}]

(***************************************************************************)
(* csv_ingest.py: ingest_csv_ing                                           *)
(***************************************************************************)
\* A row of csv.DictReader: a field is a string, None (the row is shorter
\* than the header) or Absent (the header has no such column)
Absent == <<"Absent">>
DictGet(row, key, default) == IF row[key] = Absent THEN default ELSE row[key]

\* x or None
OrNone(x) == IF x = <<>> THEN None ELSE x

\* the body of the try block up to the account lookup: the fields of the
\* row, or the exception raised by the first failing statement
CsvRowFields(row) ==
    LET datum == DictGet(row, "Datum", <<>>)
        meded == DictGet(row, "Mededelingen", <<>>)
        naam == DictGet(row, "Naam / Omschrijving", <<>>)
        afbij == DictGet(row, "Af Bij", <<>>)
        bedrag == DictGet(row, "Bedrag (EUR)", <<"0">>)
        tegen == DictGet(row, "Tegenrekening", <<>>)
        rekening == DictGet(row, "Rekening", <<>>)
        booking_date == Strip(datum)
        booking_iso == IF Len(booking_date) = 8 /\ StrIsDigit(booking_date)
                       THEN SubSeq(booking_date, 1, 4) \o <<"-">> \o SubSeq(booking_date, 5, 6)
                            \o <<"-">> \o SubSeq(booking_date, 7, 8)
                       ELSE booking_date
        description == IF Strip(meded) # <<>> THEN Strip(meded) ELSE Strip(naam)
        value_date == try_extract_value_date(description)
        debit_credit == Strip(afbij)
        amount == parse_eu_amount_to_cents(bedrag, debit_credit)
    IN IF datum = None \/ meded = None THEN [exc |-> "AttributeError"]
       ELSE IF Strip(meded) = <<>> /\ naam = None THEN [exc |-> "AttributeError"]
       ELSE IF value_date.exc # "" THEN [exc |-> value_date.exc]
       ELSE IF afbij = None \/ bedrag = None THEN [exc |-> "AttributeError"]
       ELSE IF amount.exc # "" THEN [exc |-> amount.exc]
       ELSE IF naam = None \/ rekening = None THEN [exc |-> "AttributeError"]
       ELSE [exc |-> "",
             booking_iso |-> booking_iso,
             description |-> description,
             value_date |-> value_date.val,
             debit_credit |-> debit_credit,
             amount_cents |-> amount.val,
             counterparty_iban |-> OrNone(Strip(IF tegen = None THEN <<>> ELSE tegen)),
             counterparty_name |-> OrNone(Strip(naam)),
             account_str |-> Strip(rekening)]

\* one iteration of "for row in reader"
CsvRow(st, doc_id, row) ==
    LET f == CsvRowFields(row)
        seen == [st EXCEPT !.tx_seen = @ + 1]
    IN IF f.exc # ""
       THEN [seen EXCEPT !.caught = @ + 1,
                         !.parse_events =
                Append(@, Event(doc_id, "parse", 0, "row error", f.exc, 0, 0))]
       ELSE StoreRow(seen, doc_id, f, f.account_str)

RECURSIVE CsvRows(_, _, _, _)
CsvRows(st, doc_id, rows, i) ==
    IF i > Len(rows) THEN st ELSE CsvRows(CsvRow(st, doc_id, rows[i]), doc_id, rows, i + 1)

(***************************************************************************)
(* excel_ingest.py: ingest_xls                                             *)
(***************************************************************************)
\* A worksheet cell: text, a float m / 10^k (k minimal), an int, or empty
StrCell(s) == [t |-> "str", s |-> s, m |-> 0, k |-> 0]
FloatCell(m, k) == [t |-> "float", s |-> <<>>, m |-> m, k |-> k]
IntCell(n) == [t |-> "int", s |-> <<>>, m |-> n, k |-> 0]
NoneCell == [t |-> "none", s |-> <<>>, m |-> 0, k |-> 0]

\* the k-digit decimal numeral of n, zero-padded
RECURSIVE Digits0(_, _)
Digits0(n, k) == IF k = 0 THEN <<>> ELSE Digits0(n \div 10, k - 1) \o <<DigitChar(n % 10)>>

\* str(v) of a cell value (repr of a float: '50.0', '12.34')
CellStr(c) ==
    CASE c.t = "str" -> c.s
      [] c.t = "int" -> SignedIntToStr(c.m)
      [] c.t = "float" ->
           (IF c.m < 0 THEN <<"-">> ELSE <<>>)
           \o IntToStr(Abs(c.m) \div Pow10(c.k)) \o <<".">>
           \o (IF c.k = 0 THEN <<"0">> ELSE Digits0(Abs(c.m) % Pow10(c.k), c.k))
      [] c.t = "none" -> <<"N", "o", "n", "e">>

\* xlrd.xldate_as_tuple(xldate, 0) for the numeric cell c: <<year, month,
\* day>>, or the XLDateError the library raises
XLDAYS_TOO_LARGE == 2958466
JDN_DELTA == 2415019
xldate_as_tuple(c) ==
    LET whole == c.m \div Pow10(c.k)
        frac == c.m % Pow10(c.k)
        \* int(round(frac * 86400.0)) = 86400 rolls over to the next day
        xldays == IF 2 * frac * 86400 >= (2 * 86400 - 1) * Pow10(c.k) THEN whole + 1 ELSE whole
        jdn == xldays + JDN_DELTA
        yreg == ((((((jdn * 4 + 274277) \div 146097) * 3) \div 4) + jdn) + 1363) * 4 + 3
        mp == ((yreg % 1461) \div 4) * 535 + 333
        d == ((mp % 16384) \div 535) + 1
        mq == mp \div 16384
    IN IF c.m = 0 THEN Return(<<0, 0, 0>>)
       ELSE IF c.m < 0 THEN Raise("XLDateNegative")
       ELSE IF xldays >= XLDAYS_TOO_LARGE THEN Raise("XLDateTooLarge")
       ELSE IF xldays = 0 THEN Return(<<0, 0, 0>>)
       ELSE IF xldays < 61 THEN Raise("XLDateAmbiguous")
       ELSE IF mq >= 10 THEN Return(<<(yreg \div 1461) - 4715, mq - 9, d>>)
       ELSE Return(<<(yreg \div 1461) - 4716, mq + 3, d>>)

\* f"{y:04d}-{m:02d}-{d:02d}"
FormatYMD(t) == Digits0(t[1], 4) \o <<"-">> \o Digits0(t[2], 2) \o <<"-">> \o Digits0(t[3], 2)

\* the synonym tables of the semantic columns
DatumNames == << <<"d", "a", "t", "u", "m">>, <<"d", "a", "t", "e">> >>
NameNames == << <<"n", "a", "a", "m", " ", "/", " ", "o", "m", "s", "c", "h", "r", "i", "j", "v", "i", "n", "g">>, <<"n", "a", "a", "m", "/", "o", "m", "s", "c", "h", "r", "i", "j", "v", "i", "n", "g">>, <<"o", "m", "s", "c", "h", "r", "i", "j", "v", "i", "n", "g">>, <<"d", "e", "s", "c", "r", "i", "p", "t", "i", "o", "n">> >>
RekNames == << <<"r", "e", "k", "e", "n", "i", "n", "g">>, <<"i", "b", "a", "n">>, <<"a", "c", "c", "o", "u", "n", "t">> >>
TegenNames == << <<"t", "e", "g", "e", "n", "r", "e", "k", "e", "n", "i", "n", "g">>, <<"c", "o", "u", "n", "t", "e", "r", "p", "a", "r", "t", "y">>, <<"i", "b", "a", "n", " ", "t", "e", "g", "e", "n", "r", "e", "k", "e", "n", "i", "n", "g">> >>
AfBijNames == << <<"a", "f", " ", "b", "i", "j">>, <<"a", "f", "/", "b", "i", "j">>, <<"s", "i", "g", "n">> >>
BedragNames == << <<"b", "e", "d", "r", "a", "g", " ", "(", "e", "u", "r", ")">>, <<"b", "e", "d", "r", "a", "g">>, <<"a", "m", "o", "u", "n", "t">>, <<"a", "m", "o", "u", "n", "t", " ", "(", "e", "u", "r", ")">> >>
MededNames == << <<"m", "e", "d", "e", "d", "e", "l", "i", "n", "g", "e", "n">>, <<"d", "e", "t", "a", "i", "l", "s">>, <<"m", "e", "m", "o">> >>

\* idx(name_variants): the position of the first variant that is a header,
\* counted from 1; 0 stands for None
HeaderIdx(headers, name_variants) ==
    LET norm_headers == [i \in 1..Len(headers) |-> Lower(Strip(headers[i]))]
        present == {v \in 1..Len(name_variants) :
                      \E i \in 1..Len(norm_headers) : norm_headers[i] = name_variants[v]}
    IN IF present = {} THEN 0
       ELSE LET v == CHOOSE v \in present : \A w \in present : v <= w
            IN CHOOSE i \in 1..Len(norm_headers) :
                   /\ norm_headers[i] = name_variants[v]
                   /\ \A j \in 1..(i - 1) : norm_headers[j] # name_variants[v]

\* cell(i) of the row r
CellAt(r, i) == IF i = 0 \/ i > Len(r) THEN <<>>
                ELSE IF r[i].t = "none" THEN <<>>
                ELSE Strip(CellStr(r[i]))

\* the booking date of row r with date column idx_datum (0 for None)
XlsBookingIso(r, idx_datum, mods) ==
    LET raw_date == CellAt(r, idx_datum)
        pos == IF idx_datum = 0 THEN 1 ELSE idx_datum    \* r[idx_datum or 0]
    IN IF raw_date # <<>> /\ StrIsDigit(raw_date) /\ Len(raw_date) = 8
       THEN SubSeq(raw_date, 1, 4) \o <<"-">> \o SubSeq(raw_date, 5, 6)
            \o <<"-">> \o SubSeq(raw_date, 7, 8)
       ELSE IF "xlrd" \notin mods THEN raw_date          \* ModuleNotFoundError, caught
       ELSE IF pos > Len(r) THEN raw_date                \* IndexError, caught
       ELSE IF r[pos].t \in {"int", "float"}
            THEN IF xldate_as_tuple(r[pos]).exc # "" THEN raw_date
                 ELSE FormatYMD(xldate_as_tuple(r[pos]).val)
       ELSE raw_date

\* the exceptions the inner try block of the booking date catches for row r
\* ("except Exception: booking_iso = raw_date"): 1 or 0
XlsDateCaught(r, idx_datum, mods) ==
    LET raw_date == CellAt(r, idx_datum)
        pos == IF idx_datum = 0 THEN 1 ELSE idx_datum
    IN IF raw_date # <<>> /\ StrIsDigit(raw_date) /\ Len(raw_date) = 8 THEN 0
       ELSE IF "xlrd" \notin mods THEN 1
       ELSE IF pos > Len(r) THEN 1
       ELSE IF r[pos].t \in {"int", "float"} /\ xldate_as_tuple(r[pos]).exc # "" THEN 1
       ELSE 0

\* x or default
OrElse(x, default) == IF x = <<>> THEN default ELSE x

\* the body of the try block up to the account lookup
XlsRowFields(r, headers, mods) ==
    LET description == OrElse(CellAt(r, HeaderIdx(headers, MededNames)),
                              CellAt(r, HeaderIdx(headers, NameNames)))
        value_date == try_extract_value_date(description)
        debit_credit == OrElse(CellAt(r, HeaderIdx(headers, AfBijNames)), <<"A", "f">>)
        amount == parse_eu_amount_to_cents(
                      OrElse(CellAt(r, HeaderIdx(headers, BedragNames)), <<"0">>), debit_credit)
    IN IF value_date.exc # "" THEN [exc |-> value_date.exc]
       ELSE IF amount.exc # "" THEN [exc |-> amount.exc]
       ELSE [exc |-> "",
             booking_iso |-> XlsBookingIso(r, HeaderIdx(headers, DatumNames), mods),
             description |-> description,
             value_date |-> value_date.val,
             debit_credit |-> debit_credit,
             amount_cents |-> amount.val,
             counterparty_iban |-> OrNone(CellAt(r, HeaderIdx(headers, TegenNames))),
             counterparty_name |-> OrNone(CellAt(r, HeaderIdx(headers, NameNames))),
             account_str |-> CellAt(r, HeaderIdx(headers, RekNames))]

\* one iteration of "for r in rows"
XlsRow(st, doc_id, r, headers, mods) ==
    LET f == XlsRowFields(r, headers, mods)
        seen == [st EXCEPT !.tx_seen = @ + 1,
                           !.caught = @ + XlsDateCaught(r, HeaderIdx(headers, DatumNames), mods)]
    IN IF f.exc # ""
       THEN [seen EXCEPT !.caught = @ + 1,
                         !.parse_events =
                Append(@, Event(doc_id, "parse", 0, "xls row error", f.exc, 0, 0))]
       ELSE StoreRow(seen, doc_id, f, OrNone(f.account_str))

RECURSIVE XlsRows(_, _, _, _, _, _)
XlsRows(st, doc_id, rows, headers, mods, i) ==
    IF i > Len(rows) THEN st
    ELSE XlsRows(XlsRow(st, doc_id, rows[i], headers, mods), doc_id, rows, headers, mods, i + 1)

(***************************************************************************)
(* pdf_ingest.py: ingest_pdf_generic                                       *)
(***************************************************************************)
\* \b before position i / after position i - 1: a word character on exactly
\* one side
BoundaryAt(s, i) ==
    LET before == i > 1 /\ IsWord(s[i - 1])
        after == i <= Len(s) /\ IsWord(s[i])
    IN before # after

\* _DATE_RE matched at position i: the position after the match, or 0
DateReAt(s, i) ==
    IF MatchDate10(s, i) /\ BoundaryAt(s, i) /\ BoundaryAt(s, i + 10) THEN i + 10 ELSE 0

\* (?:\.\d{3})* from position k: the position after the last complete group
RECURSIVE ThousandsGroups(_, _)
ThousandsGroups(s, k) ==
    IF k + 3 <= Len(s) /\ s[k] = "." /\ IsDigit(s[k + 1]) /\ IsDigit(s[k + 2]) /\ IsDigit(s[k + 3])
    THEN ThousandsGroups(s, k + 4) ELSE k

\* _AMOUNT_RE matched at position i: the position after the match, or 0
AmountReAt(s, i) ==
    LET j == IF i <= Len(s) /\ s[i] \in {"-", "+"} THEN i + 1 ELSE i
        n == DigitRun(s, j)
        k == ThousandsGroups(s, j + n)
    IN IF n \in 1..3 /\ k + 2 <= Len(s)
          /\ s[k] = "," /\ IsDigit(s[k + 1]) /\ IsDigit(s[k + 2])
       THEN k + 3 ELSE 0

\* _IBAN_RE matched at position i
IbanReAt(s, i) ==
    /\ i + 17 <= Len(s)
    /\ \A j \in {0, 1, 4, 5, 6, 7} : \E u \in 1..26 : s[i + j] = UpperLetters[u]
    /\ \A j \in {2, 3} \cup (8..17) : IsDigit(s[i + j])
    /\ BoundaryAt(s, i) /\ BoundaryAt(s, i + 18)

ReAt(p, s, i) == CASE p = "date" -> DateReAt(s, i)
                   [] p = "amount" -> AmountReAt(s, i)

\* p.search(s): the start of the leftmost match, or 0
ReSearch(p, s) ==
    LET starts == {i \in 1..Len(s) : ReAt(p, s, i) > 0}
    IN IF starts = {} THEN 0 ELSE CHOOSE i \in starts : \A j \in starts : i <= j

\* p.sub("", s) from position i on
RECURSIVE ReSubFrom(_, _, _)
ReSubFrom(p, s, i) ==
    LET starts == {n \in i..Len(s) : ReAt(p, s, n) > 0}
    IN IF starts = {} THEN SubSeq(s, i, Len(s))
       ELSE LET n == CHOOSE n \in starts : \A k \in starts : n <= k
            IN SubSeq(s, i, n - 1) \o ReSubFrom(p, s, ReAt(p, s, n))

\* _extract_lines: the stripped non-empty lines
extract_lines(raw) ==
    LET stripped == [i \in 1..Len(raw) |-> Strip(raw[i])]
    IN SelectSeq(stripped, LAMBDA ln : ln # <<>>)

\* _guess_account_iban over the text of the document: the first match of
\* the first line that has one, or None
guess_account_iban(raw) ==
    LET hit(ln) == {i \in 1..Len(ln) : IbanReAt(ln, i)}
        with == {n \in 1..Len(raw) : hit(raw[n]) # {}}
    IN IF with = {} THEN None
       ELSE LET n == CHOOSE n \in with : \A m \in with : n <= m
                i == CHOOSE i \in hit(raw[n]) : \A j \in hit(raw[n]) : i <= j
            IN SubSeq(raw[n], i, i + 17)

\* the candidate of line i, when the line has a date and an amount
IsCandidate(lines, i) == ReSearch("date", lines[i]) > 0 /\ ReSearch("amount", lines[i]) > 0
Candidate(lines, i) ==
    LET ln == lines[i]
        d == ReSearch("date", ln)
        a == ReSearch("amount", ln)
        rest == Strip(ReSubFrom("amount", ReSubFrom("date", ln, 1), 1))
    IN [date |-> SubSeq(ln, d, d + 9),
        amt |-> SubSeq(ln, a, AmountReAt(ln, a) - 1),
        desc |-> IF rest # <<>> THEN rest
                 ELSE IF i + 1 <= Len(lines) THEN lines[i + 1] ELSE <<>>]

\* _iter_tx_candidates
iter_tx_candidates(lines) ==
    LET all == [i \in 1..Len(lines) |->
                  IF IsCandidate(lines, i) THEN Candidate(lines, i)
                  ELSE [date |-> <<>>, amt |-> <<>>, desc |-> <<>>]]
    IN SelectSeq(all, LAMBDA c : c.date # <<>>)

\* debit_credit_hint = "Af" if "-" in amt_str.strip() else "Bij"
PdfDirectionHint(amt_str) == IF Contains(Strip(amt_str), "-") THEN <<"A", "f">> ELSE <<"B", "i", "j">>

\* the fields of a candidate once the date d and the amount are parsed
PdfParsed(cand, d, hint, amount) ==
    IF d.exc # "" THEN [exc |-> d.exc]
    ELSE IF amount.exc # "" THEN [exc |-> amount.exc]
    ELSE [exc |-> "",
          booking_iso |-> d.val,
          description |-> cand.desc,
          debit_credit |-> hint,
          amount_cents |-> amount.val]

\* the body of the try block of one candidate up to the fingerprint
PdfRowFields(cand) ==
    PdfParsed(cand, StrptimeDMY(cand.date), PdfDirectionHint(cand.amt),
              parse_eu_amount_to_cents(Remove(cand.amt, "-"), PdfDirectionHint(cand.amt)))

\* the fingerprint of the parsed fields f
PdfHash(account_id, f) ==
    compute_txn_hash(
        [account_id |-> account_id,
         booking_date |-> f.booking_iso,
         value_date |-> None,
         amount_cents |-> f.amount_cents,
         currency |-> EUR,
         debit_credit |-> DirectionOf(f.debit_credit),
         counterparty_iban_or_name |-> <<>>,
         normalized_description |-> normalize_description(f.description)])

\* INSERT OR IGNORE of the parsed fields f and the count of new rows
PdfInserted(seen, ins) ==
    [seen EXCEPT !.transactions = ins.transactions,
                 !.tx_new = CountNew(@, ins.changes)]
PdfStore(seen, doc_id, account_id, f) ==
    IF f.exc # ""
    THEN [seen EXCEPT !.caught = @ + 1,
                      !.parse_events =
             Append(@, Event(doc_id, "parse", 0, "pdf row error", f.exc, 0, 0))]
    ELSE PdfInserted(seen, insert_or_ignore_transaction(seen.transactions,
             [account_id |-> account_id,
              document_id |-> doc_id,
              txn_hash |-> PdfHash(account_id, f),
              booking_date |-> f.booking_iso,
              value_date |-> None,
              amount_cents |-> f.amount_cents,
              currency |-> EUR,
              debit_credit |-> DirectionOf(f.debit_credit),
              counterparty_name |-> None,
              counterparty_iban |-> None,
              description |-> f.description,
              category_id |-> DefaultCategory]))

\* one iteration of the candidate loop
PdfRow(st, doc_id, account_id, cand) ==
    PdfStore([st EXCEPT !.tx_seen = @ + 1], doc_id, account_id, PdfRowFields(cand))

RECURSIVE PdfRows(_, _, _, _, _)
PdfRows(st, doc_id, account_id, cands, i) ==
    IF i > Len(cands) THEN st
    ELSE PdfRows(PdfRow(st, doc_id, account_id, cands[i]), doc_id, account_id, cands, i + 1)

\* Variant: the insert never finds a conflicting row
PdfAccount_always_insert(accs, iban, account_no) ==
    LET after == Append(accs, [institution |-> ING, iban |-> iban, account_no |-> account_no])
    IN [accounts |-> after, id |-> SelectAccountId(after, ING, iban, account_no)]

\* INSERT OR IGNORE INTO accounts(...) and the SELECT of its id
PdfAccount(accs, iban, account_no) ==
    LET after == IF AccountConflict(accs, ING, iban, account_no) THEN accs
                 ELSE Append(accs, [institution |-> ING, iban |-> iban,
                                    account_no |-> account_no])
    IN [accounts |-> after, id |-> SelectAccountId(after, ING, iban, account_no)]

(***************************************************************************)
(* The files of the documents directory.  A file has a path and a byte     *)
(* content; contents are numbered, equal numbers are byte-identical files. *)
(***************************************************************************)
IBAN1 == <<"N", "L", "0", "1", "I", "N", "G", "B", "0", "0", "0", "0", "0", "0", "0", "0", "0", "1">>
IBAN2 == <<"N", "L", "0", "2", "R", "A", "B", "O", "0", "0", "0", "0", "0", "0", "0", "0", "0", "2">>

\* statement with a repeated card payment and a salary
CsvRowsA == <<
    ("Datum" :> <<"2", "0", "2", "3", "0", "1", "1", "5">> @@
     "Naam / Omschrijving" :> <<"A", "l", "b", "e", "r", "t", " ", "H", "e", "i", "j", "n">> @@
     "Rekening" :> <<"N", "L", "0", "1", "I", "N", "G", "B", "0", "0", "0", "0", "0", "0", "0", "0", "0", "1">> @@
     "Tegenrekening" :> <<>> @@
     "Af Bij" :> <<"A", "f">> @@
     "Bedrag (EUR)" :> <<"5", "0", ",", "0", "0">> @@
     "Mededelingen" :> <<"P", "a", "s", "v", "o", "l", "g", "n", "r", ":", " ", "0", "0", "1", " ", "T", "e", "r", "m", ":", " ", "A", "B", "1", "2">>),
    ("Datum" :> <<"2", "0", "2", "3", "0", "1", "1", "5">> @@
     "Naam / Omschrijving" :> <<"A", "l", "b", "e", "r", "t", " ", "H", "e", "i", "j", "n">> @@
     "Rekening" :> <<"N", "L", "0", "1", "I", "N", "G", "B", "0", "0", "0", "0", "0", "0", "0", "0", "0", "1">> @@
     "Tegenrekening" :> <<>> @@
     "Af Bij" :> <<"A", "f">> @@
     "Bedrag (EUR)" :> <<"5", "0", ",", "0", "0">> @@
     "Mededelingen" :> <<"P", "a", "s", "v", "o", "l", "g", "n", "r", ":", " ", "0", "0", "2", " ", "T", "e", "r", "m", ":", " ", "C", "D", "3", "4">>),
    ("Datum" :> <<"2", "0", "2", "3", "0", "1", "1", "6">> @@
     "Naam / Omschrijving" :> <<"W", "e", "r", "k", "g", "e", "v", "e", "r", " ", "B", "V">> @@
     "Rekening" :> <<"N", "L", "0", "1", "I", "N", "G", "B", "0", "0", "0", "0", "0", "0", "0", "0", "0", "1">> @@
     "Tegenrekening" :> <<"N", "L", "0", "2", "R", "A", "B", "O", "0", "0", "0", "0", "0", "0", "0", "0", "0", "2">> @@
     "Af Bij" :> <<"B", "i", "j">> @@
     "Bedrag (EUR)" :> <<"1", ".", "2", "3", "4", ",", "5", "6">> @@
     "Mededelingen" :> <<"S", "a", "l", "a", "r", "i", "s", " ", "V", "a", "l", "u", "t", "a", "d", "a", "t", "u", "m", ":", " ", "1", "7", "-", "0", "1", "-", "2", "0", "2", "3">>) >>

\* statement with an unparseable amount, a date in another notation, a
\* signed credit and a row shorter than the header
CsvRowsB == <<
    ("Datum" :> <<"2", "0", "2", "3", "0", "1", "1", "7">> @@
     "Naam / Omschrijving" :> <<"B", "a", "k", "k", "e", "r">> @@
     "Rekening" :> <<"N", "L", "0", "1", "I", "N", "G", "B", "0", "0", "0", "0", "0", "0", "0", "0", "0", "1">> @@
     "Tegenrekening" :> <<>> @@
     "Af Bij" :> <<"A", "f">> @@
     "Bedrag (EUR)" :> <<"a", "b", "c">> @@
     "Mededelingen" :> <<"B", "r", "o", "o", "d">>),
    ("Datum" :> <<"1", "5", "-", "0", "1", "-", "2", "0", "2", "3">> @@
     "Naam / Omschrijving" :> <<"S", "l", "a", "g", "e", "r">> @@
     "Rekening" :> <<"N", "L", "0", "1", "I", "N", "G", "B", "0", "0", "0", "0", "0", "0", "0", "0", "0", "1">> @@
     "Tegenrekening" :> <<>> @@
     "Af Bij" :> <<"A", "f">> @@
     "Bedrag (EUR)" :> <<"1", "2", ",", "5", "0">> @@
     "Mededelingen" :> <<"V", "l", "e", "e", "s">>),
    ("Datum" :> <<"2", "0", "2", "3", "0", "1", "1", "8">> @@
     "Naam / Omschrijving" :> <<"B", "e", "l", "a", "s", "t", "i", "n", "g">> @@
     "Rekening" :> <<"N", "L", "0", "1", "I", "N", "G", "B", "0", "0", "0", "0", "0", "0", "0", "0", "0", "1">> @@
     "Tegenrekening" :> <<>> @@
     "Af Bij" :> <<"B", "i", "j">> @@
     "Bedrag (EUR)" :> <<"-", "5", "0", ",", "0", "0">> @@
     "Mededelingen" :> <<"T", "e", "r", "u", "g", "g", "a", "v", "e">>),
    ("Datum" :> <<"2", "0", "2", "3", "0", "1", "1", "9">> @@
     "Naam / Omschrijving" :> <<"K", "o", "r", "t">> @@
     "Rekening" :> None @@
     "Tegenrekening" :> None @@
     "Af Bij" :> None @@
     "Bedrag (EUR)" :> None @@
     "Mededelingen" :> None) >>

CsvFiles == {[path |-> "a.csv", bytes |-> 1], [path |-> "copy_of_a.csv", bytes |-> 1],
             [path |-> "b.csv", bytes |-> 2], [path |-> "latin1.csv", bytes |-> 3]}

\* csv.DictReader over the utf-8-sig text of the file: the rows, or the
\* UnicodeDecodeError of a file in another encoding
CsvContent(bytes) ==
    CASE bytes = 1 -> [exc |-> "", rows |-> CsvRowsA]
      [] bytes = 2 -> [exc |-> "", rows |-> CsvRowsB]
      [] bytes = 3 -> [exc |-> "UnicodeDecodeError", rows |-> <<>>]

\* a legacy workbook: text dates, a serial date, an unparseable amount and
\* a card payment that is also on the delimited-text statement
XlsHeadersA == << <<"D", "a", "t", "u", "m">>, <<"N", "a", "a", "m", " ", "/", " ", "O", "m", "s", "c", "h", "r", "i", "j", "v", "i", "n", "g">>, <<"R", "e", "k", "e", "n", "i", "n", "g">>, <<"T", "e", "g", "e", "n", "r", "e", "k", "e", "n", "i", "n", "g">>,
                  <<"A", "f", " ", "B", "i", "j">>, <<"B", "e", "d", "r", "a", "g", " ", "(", "E", "U", "R", ")">>, <<"M", "e", "d", "e", "d", "e", "l", "i", "n", "g", "e", "n">> >>
XlsRowsA == <<
    << StrCell(<<"2", "0", "2", "3", "0", "1", "2", "0">>), StrCell(<<"J", "u", "m", "b", "o">>), StrCell(IBAN1), StrCell(<<>>),
       StrCell(<<"A", "f">>), StrCell(<<"2", "0", ",", "0", "0">>), StrCell(<<"P", "a", "s", "v", "o", "l", "g", "n", "r", ":", " ", "0", "0", "3", " ", "A", "p", "p", "l", "e", " ", "P", "a", "y">>) >>,
    << FloatCell(44941, 0), StrCell(<<"H", "u", "u", "r">>), StrCell(IBAN1), StrCell(IBAN2),
       StrCell(<<"A", "f">>), StrCell(<<"+", "1", ".", "0", "0", "0", ",", "0", "0">>), StrCell(<<>>) >>,
    << StrCell(<<"2", "0", "2", "3", "0", "1", "2", "2">>), StrCell(<<"K", "a", "p", "p", "e", "r">>), StrCell(IBAN1), StrCell(<<>>),
       StrCell(<<"A", "f">>), StrCell(<<"n", "/", "a">>), StrCell(<<>>) >>,
    << StrCell(<<"2", "0", "2", "3", "0", "1", "1", "5">>), StrCell(<<"A", "l", "b", "e", "r", "t", " ", "H", "e", "i", "j", "n">>), StrCell(IBAN1), StrCell(<<>>),
       StrCell(<<"A", "f">>), StrCell(<<"5", "0", ",", "0", "0">>), StrCell(<<"P", "a", "s", "v", "o", "l", "g", "n", "r", ":", " ", "7", "7", "7", " ", "T", "e", "r", "m", ":", " ", "Z", "Z", "9", "9">>) >> >>

\* an XML workbook with synonym headers, no sign column, empty cells, a
\* date in words and a numeric amount cell
XlsHeadersB == << <<" ", "D", "a", "t", "e", " ">>, <<"D", "e", "s", "c", "r", "i", "p", "t", "i", "o", "n">>, <<"I", "B", "A", "N">>, <<"A", "m", "o", "u", "n", "t">> >>
XlsRowsB == <<
    << IntCell(20230121), StrCell(<<"T", "a", "n", "k", "s", "t", "a", "t", "i", "o", "n">>), StrCell(IBAN2), StrCell(<<"-", "4", "5", ",", "1", "0">>) >>,
    << StrCell(<<"2", "1", " ", "j", "a", "n", " ", "2", "0", "2", "3">>), StrCell(<<"M", "a", "r", "k", "t">>), NoneCell, StrCell(<<"7", ",", "5", "0">>) >>,
    << FloatCell(44948, 0), StrCell(<<"P", "a", "r", "k", "e", "r", "e", "n">>), StrCell(IBAN2), FloatCell(125, 1) >> >>

XlsFiles == {[path |-> "x.xls", bytes |-> 4], [path |-> "y.xlsx", bytes |-> 5],
             [path |-> "broken.xls", bytes |-> 6]}

\* the header row and the data rows of the first sheet, or the error of the
\* workbook reader on a file that is no workbook
XlsContent(bytes) ==
    CASE bytes = 4 -> [exc |-> "", headers |-> XlsHeadersA, rows |-> XlsRowsA]
      [] bytes = 5 -> [exc |-> "", headers |-> XlsHeadersB, rows |-> XlsRowsB]
      [] bytes = 6 -> [exc |-> "XLRDError", headers |-> <<>>, rows |-> <<>>]

\* a statement with the account's IBAN, an impossible date among its lines
PdfLinesA == << <<"R", "e", "k", "e", "n", "i", "n", "g", " ", "N", "L", "0", "1", "I", "N", "G", "B", "0", "0", "0", "0", "0", "0", "0", "0", "0", "1", " ">>,
                <<"1", "5", "-", "0", "1", "-", "2", "0", "2", "3", " ", "A", "l", "b", "e", "r", "t", " ", "H", "e", "i", "j", "n", " ", "-", "5", "0", ",", "0", "0">>,
                <<" ">>,
                <<"1", "6", "-", "0", "1", "-", "2", "0", "2", "3", " ", "W", "e", "r", "k", "g", "e", "v", "e", "r", " ", "B", "V", " ", "1", ".", "2", "3", "4", ",", "5", "6">>,
                <<"3", "1", "-", "0", "2", "-", "2", "0", "2", "3", " ", "C", "o", "r", "r", "e", "c", "t", "i", "e", " ", "1", "0", ",", "0", "0">> >>
\* statements without an IBAN; the same purchase booked out and back
PdfLinesB == << <<"1", "7", "-", "0", "1", "-", "2", "0", "2", "3", " ", "B", "a", "k", "k", "e", "r", " ", "1", "2", ",", "5", "0">>, <<"1", "7", "-", "0", "1", "-", "2", "0", "2", "3", " ", "B", "a", "k", "k", "e", "r", " ", "-", "1", "2", ",", "5", "0">> >>
PdfLinesC == << <<"S", "a", "l", "d", "o", " ", "p", "e", "r", " ", "1", "8", "-", "0", "1", "-", "2", "0", "2", "3">>, <<"1", "8", "-", "0", "1", "-", "2", "0", "2", "3", " ", "+", "5", ",", "0", "0">>, <<"S", "l", "a", "g", "e", "r">> >>

\* broken.pdf is b.csv under another name
PdfFiles == {[path |-> "p.pdf", bytes |-> 7], [path |-> "q.pdf", bytes |-> 8],
             [path |-> "r.pdf", bytes |-> 9], [path |-> "broken.pdf", bytes |-> 2]}

\* the text the extraction library yields for the pages, line by line, with
\* the number of pages whose extract_tables() raised (the page's plain text
\* is used instead), or its error on a file that is no PDF
PdfContent(bytes) ==
    CASE bytes = 7 -> [exc |-> "", raw |-> PdfLinesA, table_errors |-> 0]
      [] bytes = 8 -> [exc |-> "", raw |-> PdfLinesB, table_errors |-> 0]
      [] bytes = 9 -> [exc |-> "", raw |-> PdfLinesC, table_errors |-> 1]
      [] bytes = 2 -> [exc |-> "PDFSyntaxError", raw |-> <<>>, table_errors |-> 0]


\* _sha256_file: the digest identifies the byte content
sha256_file(file) == file.bytes

Tables == [documents |-> documents, accounts |-> accounts,
           transactions |-> transactions, parse_events |-> parse_events]

\* the record of a finished call: its result and what it started from
CallRecord(fn, file, doc_id, docs_new, st, raised, committed_now) ==
    [fn |-> fn, path |-> file.path, sha |-> sha256_file(file), doc_id |-> doc_id,
     docs_new |-> docs_new, tx_seen |-> st.tx_seen, tx_new |-> st.tx_new,
     raised |-> raised, commit |-> committed_now, resolved |-> st.resolved,
     caught |-> st.caught, events |-> st.parse_events,
     ev_lo |-> Len(parse_events), tx_before |-> transactions,
     docs_before |-> documents, accs_before |-> accounts,
     tx_after |-> st.transactions]

\* the state of a call after registering the document
RowState(events) ==
    [accounts |-> accounts, transactions |-> transactions, parse_events |-> events,
     tx_seen |-> 0, tx_new |-> 0, resolved |-> {}, caught |-> 0]

MaxCalls == 2

\* Variant: a known document's row is overwritten with the new path and kind
RegisterDocument_overwrite(docs, found, row) ==
    IF found # 0 THEN [docs EXCEPT ![found] = row] ELSE Append(docs, row)

\* "if row: doc_id = int(row[0]) else: INSERT INTO documents(...)": the
\* documents table after the lookup found the id `found` (0: none)
RegisterDocument(docs, found, row) == IF found # 0 THEN docs ELSE Append(docs, row)

\* Variant: the connection is committed before it is closed
conn_close_commit(last_commit, view) == view

\* ingest_documents, "finally: conn.close()" after a call raised: what the
\* connection wrote since its last commit is rolled back
conn_close(last_commit, view) == last_commit

\* a call that raises: the record of the call, and the driver's close
RaisedCall(fn, file, doc_id, docs_new, docs, events) ==
    \E st \in {RowState(events)} :
    \E back \in {conn_close(committed,
                            [documents |-> docs, accounts |-> st.accounts,
                             transactions |-> st.transactions,
                             parse_events |-> st.parse_events])} :
        /\ documents' = back.documents
        /\ accounts' = back.accounts
        /\ transactions' = back.transactions
        /\ parse_events' = back.parse_events
        /\ calls' = Append(calls, CallRecord(fn, file, doc_id, docs_new, st, TRUE, FALSE))
        /\ UNCHANGED committed

\* a call that returns: conn.commit() after the last write
ReturnedCall(fn, file, doc_id, docs_new, docs, st) ==
    /\ documents' = docs
    /\ accounts' = st.accounts
    /\ transactions' = st.transactions
    /\ parse_events' = st.parse_events
    /\ committed' = [documents |-> docs, accounts |-> st.accounts,
                     transactions |-> st.transactions, parse_events |-> st.parse_events]
    /\ calls' = Append(calls, CallRecord(fn, file, doc_id, docs_new, st, FALSE, TRUE))

\* the event appended to the events of the call state st
WithEvent(st, e) == [st EXCEPT !.parse_events = Append(@, e)]

\* ingest_csv_ing(conn, csv_path)
ingest_csv_ing(file) ==
    /\ Len(calls) < MaxCalls
    /\ \E found \in {DocumentIdOf(documents, sha256_file(file))} :
       \E docs \in {RegisterDocument(documents, found,
                                     [path |-> file.path, sha256 |-> sha256_file(file),
                                      source_type |-> "csv", bank_hint |-> ING])} :
       \E doc_id \in {IF found # 0 THEN found ELSE Len(documents) + 1} :
       \E ev0 \in {Append(parse_events,
                          IF found # 0
                          THEN Event(doc_id, "ingest", 1,
                                     "Already imported; reprocessing parse only", "", 0, 0)
                          ELSE Event(doc_id, "ingest", 1, "New document imported", "", 0, 0))} :
           IF CsvContent(file.bytes).exc # ""
           THEN RaisedCall("ingest_csv_ing", file, doc_id, IF found # 0 THEN 0 ELSE 1, docs, ev0)
           ELSE \E st \in {CsvRows(RowState(ev0), doc_id, CsvContent(file.bytes).rows, 1)} :
                ReturnedCall("ingest_csv_ing", file, doc_id, IF found # 0 THEN 0 ELSE 1, docs,
                             WithEvent(st, Event(doc_id, "parse", 1, "parsed rows", "",
                                                 st.tx_seen, st.tx_new)))
    /\ UNCHANGED <<categories, modules, fin, fout>>

IngestCsv == \E file \in CsvFiles : ingest_csv_ing(file)

\* xls_path.suffix.lower()
Suffix(path) == CASE path \in {"x.xls", "broken.xls"} -> ".xls"
                  [] path = "y.xlsx" -> ".xlsx"
                  [] path \in {"a.csv", "copy_of_a.csv", "b.csv", "latin1.csv"} -> ".csv"
                  [] OTHER -> ".pdf"

\* the library that reads the file: pdfplumber, openpyxl for .xlsx, xlrd for
\* any other spreadsheet
NeededModule(path) == IF Suffix(path) = ".pdf" THEN "pdfplumber"
                      ELSE IF Suffix(path) = ".xlsx" THEN "openpyxl"
                      ELSE "xlrd"

\* Variant: the ModuleNotFoundError of the import is not caught
XlsLoad_uncaught(file, mods) ==
    IF NeededModule(file.path) \notin mods
    THEN [status |-> "raise", exc |-> "ModuleNotFoundError", headers |-> <<>>, rows |-> <<>>]
    ELSE IF XlsContent(file.bytes).exc # ""
    THEN [status |-> "raise", exc |-> XlsContent(file.bytes).exc, headers |-> <<>>, rows |-> <<>>]
    ELSE [status |-> "ok", exc |-> "", headers |-> XlsContent(file.bytes).headers,
          rows |-> XlsContent(file.bytes).rows]

\* the try block that loads the first sheet: "missing" when the import
\* raises ModuleNotFoundError (caught), "raise" for any other exception of
\* the reader, else the header row and the data rows
XlsLoad(file, mods) ==
    IF NeededModule(file.path) \notin mods
    THEN [status |-> "missing", exc |-> "ModuleNotFoundError", headers |-> <<>>, rows |-> <<>>]
    ELSE IF XlsContent(file.bytes).exc # ""
    THEN [status |-> "raise", exc |-> XlsContent(file.bytes).exc, headers |-> <<>>, rows |-> <<>>]
    ELSE [status |-> "ok", exc |-> "", headers |-> XlsContent(file.bytes).headers,
          rows |-> XlsContent(file.bytes).rows]

\* "xls" or "xlsx": xls_path.suffix.lower().lstrip(".")
XlsSourceType(path) == IF Suffix(path) = ".xlsx" THEN "xlsx" ELSE "xls"

\* the ModuleNotFoundError handler of the loader: one event
XlsMissing(st, doc_id, content) ==
    [WithEvent(st, Event(doc_id, "parse", 0, "Excel parser missing", content.exc, 0, 0))
        EXCEPT !.caught = @ + 1]

\* ingest_xls(conn, xls_path)
ingest_xls(file) ==
    /\ Len(calls) < MaxCalls
    /\ \E found \in {DocumentIdOf(documents, sha256_file(file))} :
       \E docs \in {RegisterDocument(documents, found,
                                     [path |-> file.path, sha256 |-> sha256_file(file),
                                      source_type |-> XlsSourceType(file.path),
                                      bank_hint |-> ING])} :
       \E doc_id \in {IF found # 0 THEN found ELSE Len(documents) + 1} :
       \E content \in {XlsLoad(file, modules)} :
           IF content.status = "missing"
           THEN ReturnedCall("ingest_xls", file, doc_id, IF found # 0 THEN 0 ELSE 1, docs,
                             XlsMissing(RowState(parse_events), doc_id, content))
           ELSE IF content.status = "raise"
           THEN RaisedCall("ingest_xls", file, doc_id, IF found # 0 THEN 0 ELSE 1, docs,
                           parse_events)
           ELSE \E st \in {XlsRows(RowState(parse_events), doc_id, content.rows,
                                   content.headers, modules, 1)} :
                ReturnedCall("ingest_xls", file, doc_id, IF found # 0 THEN 0 ELSE 1, docs,
                             WithEvent(st, Event(doc_id, "parse", 1, "excel rows", "",
                                                 st.tx_seen, st.tx_new)))
    /\ UNCHANGED <<categories, modules, fin, fout>>

IngestXls == \E file \in XlsFiles : ingest_xls(file)

\* the account of the document: the (ING, iban, null) row of the IBAN found
\* in the text, else the unknown bucket
PdfResolve(accs, account_iban) ==
    IF account_iban # None THEN PdfAccount(accs, account_iban, None)
    ELSE PdfAccount(accs, None, UNKNOWN_PDF)
PdfAccountKey(account_iban, id) ==
    IF account_iban # None THEN <<ING, account_iban, None, id>>
    ELSE <<ING, None, UNKNOWN_PDF, id>>

\* the candidate loop and the summary event
PdfSummary(done, doc_id) ==
    [done EXCEPT !.parse_events =
        Append(@, Event(doc_id, "parse", 1, "pdf parsed", "", done.tx_seen, done.tx_new))]
PdfParse(st, doc_id, account_iban, acc, lines) ==
    PdfSummary(PdfRows([st EXCEPT !.accounts = acc.accounts,
                                  !.resolved = {PdfAccountKey(account_iban, acc.id)}],
                       doc_id, acc.id, iter_tx_candidates(lines), 1),
               doc_id)
PdfText(st, doc_id, account_iban, raw) ==
    PdfParse(st, doc_id, account_iban, PdfResolve(st.accounts, account_iban),
             extract_lines(raw))

\* the try blocks of ingest_pdf_generic
PdfBody(st, doc_id, file, mods) ==
    IF NeededModule(file.path) \notin mods
    THEN [WithEvent(st, Event(doc_id, "parse", 0,
                              "pdfplumber not installed; cannot parse PDF.", "", 0, 0))
             EXCEPT !.caught = @ + 1]
    ELSE IF PdfContent(file.bytes).exc # ""
    THEN [WithEvent(st, Event(doc_id, "parse", 0, "pdf error",
                              PdfContent(file.bytes).exc, 0, 0))
             EXCEPT !.caught = @ + 1]
    ELSE PdfText([st EXCEPT !.caught = @ + PdfContent(file.bytes).table_errors],
                 doc_id, guess_account_iban(PdfContent(file.bytes).raw),
                 PdfContent(file.bytes).raw)

\* ingest_pdf_generic(conn, pdf_path)
ingest_pdf_generic(file) ==
    /\ Len(calls) < MaxCalls
    /\ \E found \in {DocumentIdOf(documents, sha256_file(file))} :
       \E docs \in {RegisterDocument(documents, found,
                                     [path |-> file.path, sha256 |-> sha256_file(file),
                                      source_type |-> "pdf", bank_hint |-> None])} :
       \E doc_id \in {IF found # 0 THEN found ELSE Len(documents) + 1} :
       \E st \in {PdfBody(RowState(parse_events), doc_id, file, modules)} :
           ReturnedCall("ingest_pdf_generic", file, doc_id, IF found # 0 THEN 0 ELSE 1,
                        docs, st)
    /\ UNCHANGED <<categories, modules, fin, fout>>

IngestPdf == \E file \in PdfFiles : ingest_pdf_generic(file)

(***************************************************************************)
(* categorizer.py: categorize_transactions                                 *)
(***************************************************************************)
\* DEFAULT_CATEGORY_MAP: keyword (lowercase) -> category code, in the order
\* of the dict
DEFAULT_CATEGORY_MAP == <<
    [kw |-> <<"a", "l", "b", "e", "r", "t", " ", "h", "e", "i", "j", "n">>, code |-> "GROCERIES"],
    [kw |-> <<"j", "u", "m", "b", "o">>, code |-> "GROCERIES"],
    [kw |-> <<"l", "i", "d", "l", "e">>, code |-> "GROCERIES"],
    [kw |-> <<"a", "c", "t", "i", "o", "n">>, code |-> "HOUSEHOLD"],
    [kw |-> <<"b", "r", "a", "b", "a", "n", "t", "w", "o", "n", "e", "n">>, code |-> "RENT"],
    [kw |-> <<"h", "u", "u", "r">>, code |-> "RENT"],
    [kw |-> <<"v", "g", "z">>, code |-> "HEALTH"],
    [kw |-> <<"n", "n", " ", "s", "c", "h", "a", "d", "e", "v", "e", "r", "z", "e", "k", "e", "r", "i", "n", "g">>, code |-> "INSURANCE"],
    [kw |-> <<"v", "e", "r", "z", "e", "k", "e", "r", "i", "n", "g">>, code |-> "INSURANCE"],
    [kw |-> <<"i", "n", "g", " ", "c", "r", "e", "d", "i", "t", "c", "a", "r", "d">>, code |-> "CREDIT_CARD"],
    [kw |-> <<"b", "e", "t", "a", "a", "l", "p", "a", "k", "k", "e", "t">>, code |-> "BANK_FEES"],
    [kw |-> <<"r", "e", "n", "t", "e">>, code |-> "INTEREST"],
    [kw |-> <<"a", "m", "a", "z", "o", "n">>, code |-> "SHOPPING"],
    [kw |-> <<"w", "a", "s", "h", "i", "n", "7">>, code |-> "TRANSPORT"] >>

\* SELECT id FROM categories WHERE code=? (0 when there is none)
CategoryIdOf(cats, code) ==
    IF \E i \in 1..Len(cats) : cats[i].code = code
    THEN CHOOSE i \in 1..Len(cats) : cats[i].code = code
    ELSE 0

\* _ensure_category: the categories table afterwards (the label of a new
\* row is derived from its code and read by nothing)
ensure_category(cats, code) ==
    IF CategoryIdOf(cats, code) # 0 THEN cats ELSE Append(cats, [code |-> code])

\* the loop that builds category_ids, from entry k of the map on
RECURSIVE EnsureCategories(_, _)
EnsureCategories(cats, k) ==
    IF k > Len(DEFAULT_CATEGORY_MAP) THEN cats
    ELSE EnsureCategories(ensure_category(cats, DEFAULT_CATEGORY_MAP[k].code), k + 1)

\* kw in base
IsSubstring(kw, base) == \E i \in 1..Len(base) : MatchLit(base, i, kw, FALSE)

\* normalize_text((desc or "") + " " + (cp or "")).lower()
CategoryBase(t) ==
    Lower(normalize_text((IF t.description = None THEN <<>> ELSE t.description)
                         \o <<" ">>
                         \o (IF t.counterparty_name = None THEN <<>> ELSE t.counterparty_name)))

\* the code of the first keyword of the map found in base, "" when none is
ChosenCode(base) ==
    LET hits == {k \in 1..Len(DEFAULT_CATEGORY_MAP) : IsSubstring(DEFAULT_CATEGORY_MAP[k].kw, base)}
    IN IF hits = {} THEN ""
       ELSE DEFAULT_CATEGORY_MAP[CHOOSE k \in hits : \A j \in hits : k <= j].code

\* the rows of "SELECT ... FROM transactions WHERE category_id IS NULL"
Uncategorized(txs) == {t \in 1..Len(txs) : txs[t].category_id = 0}

\* UPDATE transactions SET category_id=? WHERE id=? for every selected row
\* with a keyword
Categorized(txs, cats) ==
    [t \in 1..Len(txs) |->
        IF t \in Uncategorized(txs) /\ ChosenCode(CategoryBase(txs[t])) # ""
        THEN [txs[t] EXCEPT !.category_id = CategoryIdOf(cats, ChosenCode(CategoryBase(txs[t])))]
        ELSE txs[t]]

\* categorize_transactions(conn) on a connection of its own, committed at
\* the end
categorize_transactions ==
    /\ \E cats \in {EnsureCategories(categories, 1)} :
       \E txs \in {Categorized(transactions, cats)} :
           /\ categories' = cats
           /\ transactions' = txs
           /\ committed' = [documents |-> documents, accounts |-> accounts,
                            transactions |-> txs, parse_events |-> parse_events]
    /\ UNCHANGED <<documents, accounts, parse_events, modules, calls, fin, fout>>

Categorize == categorize_transactions



\* the optional decoding libraries that can be imported
ModuleConfigs == {{"xlrd", "openpyxl", "pdfplumber"}, {"openpyxl"}, {"xlrd"}, {}}

Init == /\ documents = <<>>
        /\ accounts = <<>>
        /\ transactions = <<>>
        /\ parse_events = <<>>
        /\ categories = <<>>
        /\ committed = [documents |-> <<>>, accounts |-> <<>>,
                        transactions |-> <<>>, parse_events |-> <<>>]
        /\ modules \in ModuleConfigs
        /\ calls = <<>>
        /\ fin = [op |-> "none"]
        /\ fout = [exc |-> "none"]

Next == IngestCsv \/ IngestXls \/ IngestPdf \/ Categorize
Spec == Init /\ [][Next]_vars

(***************************************************************************)
(* Properties of the ingest calls                                          *)
(***************************************************************************)
\* the parse events appended by call i
CallEvents(i) ==
    SubSeq(parse_events, calls[i].ev_lo + 1,
           IF i < Len(calls) THEN calls[i + 1].ev_lo ELSE Len(parse_events))

\* what call i wrote to parse_events (kept in the call's record also when
\* the call raised and the writes were rolled back)
CallWritten(i) == SubSeq(calls[i].events, calls[i].ev_lo + 1, Len(calls[i].events))
CallFailedWritten(i) == SelectSeq(CallWritten(i), LAMBDA e : e.ok = 0)

\* the transactions and documents tables after call i
CallTxAfter(i) == calls[i].tx_after
CallDocsAfter(i) == IF i < Len(calls) THEN calls[i + 1].docs_before ELSE documents

\* the fingerprints stored in a transactions table
HashesOf(txs) == {txs[t].txn_hash : t \in 1..Len(txs)}

\* the failed events among the events of call i
FailedEvents(i) == SelectSeq(CallEvents(i), LAMBDA e : e.ok = 0)

\* s is YYYY-MM-DD and a day of the calendar
IsIsoDate(s) ==
    /\ Len(s) = 10
    /\ s[5] = "-" /\ s[8] = "-"
    /\ \A i \in {1, 2, 3, 4, 6, 7, 9, 10} : IsDigit(s[i])
    /\ ValidYMD(DigitsToInt(SubSeq(s, 1, 4)), DigitsToInt(SubSeq(s, 6, 7)),
                DigitsToInt(SubSeq(s, 9, 10)))

\* C1: calling the same ingest function twice in a row on byte-identical
\* content resolves to the same documents row both times (a document new to
\* the store is counted new by the first call, never by the second, and the
\* store holds exactly one documents row for the content hash), the second
\* call reports tx_new = 0 and leaves the transactions table as it found
\* it, with the rows the first call left.
C1_IdempotentReingest ==
    \A n \in 2..Len(calls) :
        ( /\ calls[n].fn = calls[n - 1].fn
          /\ calls[n].sha = calls[n - 1].sha
          /\ ~calls[n - 1].raised /\ ~calls[n].raised ) =>
            /\ calls[n].doc_id = calls[n - 1].doc_id
            /\ calls[n].docs_new = 0
            /\ calls[n - 1].docs_new =
                   (IF DocumentIdOf(calls[n - 1].docs_before, calls[n].sha) = 0 THEN 1 ELSE 0)
            /\ Cardinality({d \in 1..Len(CallDocsAfter(n)) :
                               CallDocsAfter(n)[d].sha256 = calls[n].sha}) = 1
            /\ calls[n].tx_new = 0
            /\ CallTxAfter(n) = calls[n].tx_before
            /\ HashesOf(CallTxAfter(n)) = HashesOf(CallTxAfter(n - 1))

\* a document new to the store whose first ingest stored rows, ingested again
C1_Witness ==
    \E n \in 2..Len(calls) :
        /\ calls[n].fn = calls[n - 1].fn /\ calls[n].sha = calls[n - 1].sha
        /\ ~calls[n - 1].raised /\ ~calls[n].raised
        /\ calls[n - 1].docs_new = 1 /\ calls[n - 1].tx_new > 0
        /\ calls[n].tx_seen = calls[n - 1].tx_seen

\* C2: an ingest call never changes a column of an existing transactions
\* row (its document, account, amount, dates and description stay as first
\* stored) and never leaves two rows with the same fingerprint, whichever
\* parser and document attempts the insert.
C2_InsertNeverUpdates ==
    [][ calls' # calls =>
          /\ Len(transactions') >= Len(transactions)
          /\ \A i \in 1..Len(transactions) : transactions'[i] = transactions[i]
          /\ \A i, j \in 1..Len(transactions') :
                 transactions'[i].txn_hash = transactions'[j].txn_hash => i = j ]_vars

\* the card payment stored from the delimited-text statement, met again in
\* the spreadsheet of another document and absorbed
C2_Witness ==
    /\ Len(calls) >= 2
    /\ calls[1].path = "a.csv" /\ calls[2].path = "x.xls"
    /\ calls[2].tx_seen = 4 /\ calls[2].tx_new = 2 /\ Len(FailedEvents(2)) = 1
    /\ calls[2].doc_id # calls[1].doc_id
    /\ transactions[1].document_id = calls[1].doc_id
    /\ transactions[1].description = <<"P", "a", "s", "v", "o", "l", "g", "n", "r", ":", " ", "0", "0", "1", " ", "T", "e", "r", "m", ":", " ", "A", "B", "1", "2">>

\* the rows of the file of call i in the fields the parser extracts
CallRowFields(i) ==
    IF calls[i].fn = "ingest_csv_ing"
    THEN [r \in 1..Len(CsvContent(calls[i].sha).rows) |->
             CsvRowFields(CsvContent(calls[i].sha).rows[r])]
    ELSE [r \in 1..Len(XlsContent(calls[i].sha).rows) |->
             XlsRowFields(XlsContent(calls[i].sha).rows[r],
                          XlsContent(calls[i].sha).headers, modules)]

\* a row is structurally invalid when a field does not parse or its date is
\* no calendar date
StructurallyInvalid(f) == f.exc # "" \/ ~IsIsoDate(f.booking_iso)

\* the canonical fields that make the fingerprint of a row
FingerprintFields(f) ==
    <<f.account_str, f.booking_iso, f.value_date, f.amount_cents,
      DirectionOf(f.debit_credit), f.counterparty_iban, f.counterparty_name,
      normalize_description(f.description)>>

DistinctFingerprints(fs) ==
    \A a, b \in 1..Len(fs) :
        (a # b /\ ~StructurallyInvalid(fs[a]) /\ ~StructurallyInvalid(fs[b])) =>
            FingerprintFields(fs[a]) # FingerprintFields(fs[b])

\* the file of call i can be read: the library is there and the file decodes
Readable(i) ==
    IF calls[i].fn = "ingest_csv_ing" THEN CsvContent(calls[i].sha).exc = ""
    ELSE IF calls[i].fn = "ingest_xls" THEN XlsLoad([path |-> calls[i].path, bytes |-> calls[i].sha], modules).status = "ok"
    ELSE NeededModule(calls[i].path) \in modules /\ PdfContent(calls[i].sha).exc = ""

\* C3: one delimited-text or spreadsheet ingest on an empty store of a file
\* with N rows of pairwise distinct fingerprints, k of them structurally
\* invalid, persists N - k transactions, appends k failed parse events,
\* processes every row and does not raise.
C3_PartialFailureIsolation ==
    ( /\ Len(calls) = 1
      /\ calls[1].fn \in {"ingest_csv_ing", "ingest_xls"}
      /\ Readable(1)
      /\ DistinctFingerprints(CallRowFields(1)) ) =>
        LET N == Len(CallRowFields(1))
            k == Len(SelectSeq(CallRowFields(1), StructurallyInvalid))
        IN /\ ~calls[1].raised
           /\ calls[1].tx_seen = N
           /\ Len(transactions) = N - k
           /\ Len(FailedEvents(1)) = k
           /\ \A e \in 1..Len(FailedEvents(1)) : FailedEvents(1)[e].stage = "parse"

\* C4: a spreadsheet or PDF ingest whose library is not importable inserts
\* no transaction, appends exactly one failed parse event, for its document,
\* commits and returns without raising.
C4_MissingCapability ==
    \A i \in 1..Len(calls) :
        ( /\ calls[i].fn \in {"ingest_xls", "ingest_pdf_generic"}
          /\ NeededModule(calls[i].path) \notin modules ) =>
            /\ ~calls[i].raised
            /\ calls[i].commit
            /\ calls[i].tx_new = 0
            /\ CallTxAfter(i) = calls[i].tx_before
            /\ Len(FailedEvents(i)) = 1
            /\ FailedEvents(i)[1].document_id = calls[i].doc_id
            /\ FailedEvents(i)[1].stage = "parse"
            /\ (i = Len(calls) => committed = Tables)

\* a spreadsheet ingested without its library after a statement that stored
\* rows: one failed event more, the rows as they were
C4_Witness ==
    /\ Len(calls) = 2
    /\ calls[1].tx_new > 0
    /\ calls[2].fn = "ingest_xls"
    /\ NeededModule(calls[2].path) \notin modules
    /\ Len(parse_events) = calls[2].ev_lo + 1
    /\ transactions = calls[2].tx_before
    /\ committed = Tables

\* every (institution, iban, account_no, id) a call resolved
AllResolved == UNION {calls[i].resolved : i \in 1..Len(calls)}
IsUnknownBucket(r) == r[1] = ING /\ r[2] = None /\ r[3] = UNKNOWN_PDF

\* C5: references to the same (institution, IBAN, account number) resolve
\* to the same account id, the row of that tuple, whichever document or
\* parser made them; every PDF without an IBAN resolves to the one row
\* (ING, null, UNKNOWN_PDF), whose id is that of no account with an IBAN.
C5_AccountIdentity ==
    /\ \A r1, r2 \in AllResolved :
           (r1[1] = r2[1] /\ r1[2] = r2[2] /\ r1[3] = r2[3]) => r1[4] = r2[4]
    /\ \A r \in AllResolved :
           /\ r[4] \in 1..Len(accounts)
           /\ accounts[r[4]] = [institution |-> r[1], iban |-> r[2], account_no |-> r[3]]
    /\ \A i \in 1..Len(calls) :
           ( /\ calls[i].fn = "ingest_pdf_generic" /\ Readable(i)
             /\ guess_account_iban(PdfContent(calls[i].sha).raw) = None ) =>
               /\ Cardinality(calls[i].resolved) = 1
               /\ \A r \in calls[i].resolved : IsUnknownBucket(r)
    /\ \A r1, r2 \in AllResolved :
           (IsUnknownBucket(r1) /\ r2[2] # None) => r1[4] # r2[4]

\* the same IBAN met by the delimited-text parser and by the PDF parser in
\* two documents: one accounts row, one id
C5_Witness ==
    /\ \E i, j \in 1..Len(calls) :
           /\ calls[i].fn = "ingest_csv_ing" /\ calls[j].fn = "ingest_pdf_generic"
           /\ calls[i].doc_id # calls[j].doc_id
           /\ \E r \in calls[i].resolved : r[2] = IBAN1 /\ r \in calls[j].resolved
    /\ Len(accounts) = 1

\* C8: every persisted transactions row has a booking_date that is a valid
\* ISO calendar date, and a row whose date does not convert to one is not
\* persisted but recorded as one failed parse event.
C8_BookingDateValid ==
    /\ \A t \in 1..Len(transactions) : IsIsoDate(transactions[t].booking_date)
    /\ \A i \in 1..Len(calls) :
           (calls[i].fn \in {"ingest_csv_ing", "ingest_xls"} /\ Readable(i)) =>
               Len(FailedEvents(i)) = Len(SelectSeq(CallRowFields(i), StructurallyInvalid))

\* C9: every ingest call writes exactly one event of stage 'ingest', for its
\* document and before its other events, and the message of a new document
\* differs from the message of a repeat import.
C9_IngestEvent ==
    /\ \A i \in 1..Len(calls) :
           /\ Len(SelectSeq(CallWritten(i), LAMBDA e : e.stage = "ingest")) = 1
           /\ CallWritten(i)[1].stage = "ingest"
           /\ CallWritten(i)[1].document_id = calls[i].doc_id
    /\ \A i, j \in 1..Len(calls) :
           calls[i].docs_new # calls[j].docs_new =>
               CallWritten(i)[1].message # CallWritten(j)[1].message


\* C11: in every ingest call each exception that is caught and not re-raised
\* has a failed parse event (ok = 0) of its own: the number of exceptions
\* the call caught never exceeds the number of failed events it appended.
C11_NoSilentSwallow ==
    \A i \in 1..Len(calls) : calls[i].caught <= Len(CallFailedWritten(i))

\* the rows or candidates the parser of call i scans in its file: none when
\* the file cannot be read
ScannedRows(i) ==
    IF ~Readable(i) THEN 0
    ELSE IF calls[i].fn = "ingest_csv_ing" THEN Len(CsvContent(calls[i].sha).rows)
    ELSE IF calls[i].fn = "ingest_xls" THEN Len(XlsContent(calls[i].sha).rows)
    ELSE Len(iter_tx_candidates(extract_lines(PdfContent(calls[i].sha).raw)))

\* C12: for every ingest call that returns, tx_new is the number of
\* transactions rows that exist after the call and did not exist before it
\* (the rows before the call are all still there, a row whose fingerprint was
\* already stored adds nothing), tx_seen is the number of rows or candidates
\* scanned, and tx_new <= tx_seen.
C12_WasNewAccurate ==
    \A i \in 1..Len(calls) :
        ~calls[i].raised =>
            /\ Len(CallTxAfter(i)) = Len(calls[i].tx_before) + calls[i].tx_new
            /\ Cardinality(HashesOf(CallTxAfter(i)) \ HashesOf(calls[i].tx_before))
                   = calls[i].tx_new
            /\ HashesOf(calls[i].tx_before) \subseteq HashesOf(CallTxAfter(i))
            /\ calls[i].tx_seen = ScannedRows(i)
            /\ calls[i].tx_new <= calls[i].tx_seen

\* a call on a store that already holds rows: some of its rows are new, one
\* conflicts with a stored fingerprint and is not counted
C12_Witness ==
    \E i \in 2..Len(calls) :
        /\ ~calls[i].raised
        /\ calls[i].tx_before # <<>>
        /\ calls[i].tx_new > 0
        /\ calls[i].tx_new < calls[i].tx_seen - Len(CallFailedWritten(i))
        /\ calls[i].sha # calls[i - 1].sha

\* C13: an ingest call inserts every new transactions row with a null
\* category and leaves the category of every existing row as it is, so a
\* category assigned by categorize_transactions is still there after the
\* same content is ingested again; categorize_transactions changes only
\* rows whose category is null, and of those only the category.
C13_CategoryKept ==
    [][ /\ calls' # calls =>
              /\ Len(transactions') >= Len(transactions)
              /\ \A t \in 1..Len(transactions) :
                     transactions'[t].category_id = transactions[t].category_id
              /\ \A t \in (Len(transactions) + 1)..Len(transactions') :
                     transactions'[t].category_id = 0
        /\ (calls' = calls /\ transactions' # transactions) =>
              /\ Len(transactions') = Len(transactions)
              /\ \A t \in 1..Len(transactions) :
                     /\ transactions[t].category_id # 0 => transactions'[t] = transactions[t]
                     /\ transactions'[t] =
                            [transactions[t] EXCEPT !.category_id = transactions'[t].category_id]
      ]_vars

\* a statement ingested, categorized and ingested again: the second call
\* met rows that had a category and they still have it
C13_Witness ==
    /\ Len(calls) = 2
    /\ calls[1].sha = calls[2].sha /\ calls[1].fn = calls[2].fn
    /\ calls[1].tx_new > 0 /\ calls[2].tx_seen > 0
    /\ \E t \in 1..Len(calls[1].tx_after) :
           /\ calls[1].tx_after[t].category_id = 0
           /\ calls[2].tx_before[t].category_id # 0
           /\ transactions[t].category_id = calls[2].tx_before[t].category_id
           /\ categories[transactions[t].category_id].code = "GROCERIES"

\* C14: everything the connection has written is committed whenever a call
\* is over, so the writes of one document are committed before the first
\* write of the next.  A call that returns has committed, after its last
\* row and its last parse event: the committed parse events end with the
\* events of the call and the committed tables hold its document and its
\* rows.  A call that raised has not committed, and none of its writes
\* (document row, events, accounts, transactions) is in the tables.
C14_PerDocumentCommit ==
    /\ committed = Tables
    /\ \A i \in 1..Len(calls) : calls[i].commit = ~calls[i].raised
    /\ Len(calls) > 0 =>
          LET c == calls[Len(calls)]
          IN IF c.raised
             THEN /\ committed.documents = c.docs_before
                  /\ committed.parse_events = SubSeq(c.events, 1, c.ev_lo)
                  /\ committed.accounts = c.accs_before
                  /\ HashesOf(committed.transactions) = HashesOf(c.tx_before)
             ELSE /\ committed.parse_events = c.events
                  /\ c.doc_id \in 1..Len(committed.documents)
                  /\ committed.documents[c.doc_id].sha256 = c.sha
                  /\ HashesOf(committed.transactions) = HashesOf(c.tx_after)
                  /\ Len(c.events) > c.ev_lo
                  /\ c.events[Len(c.events)].document_id = c.doc_id

\* a statement that cannot be decoded after its document row and ingest
\* event were written, then a statement that is stored: only the second
\* document is in the tables
C14_Witness ==
    /\ Len(calls) = 2
    /\ calls[1].raised /\ calls[1].docs_new = 1 /\ Len(CallWritten(1)) = 1
    /\ ~calls[2].raised /\ calls[2].tx_new > 0 /\ calls[2].doc_id = 1
    /\ Len(documents) = 1 /\ documents[1].sha256 = calls[2].sha
    /\ \A e \in 1..Len(parse_events) : parse_events[e].document_id = 1

\* C15: no step updates or deletes a parse_events row or a documents row:
\* both tables only grow at the end, the parse_events count never decreases,
\* and an ingest call on known content (whatever the path or the extension
\* it comes under) leaves the documents table as it is, while a call on new
\* content that returns adds the one row of its document.
C15_AppendOnly ==
    [][ /\ Len(parse_events') >= Len(parse_events)
        /\ SubSeq(parse_events', 1, Len(parse_events)) = parse_events
        /\ Len(documents') >= Len(documents)
        /\ SubSeq(documents', 1, Len(documents)) = documents
        /\ calls' # calls =>
              LET c == calls'[Len(calls')]
              IN IF c.docs_new = 0 \/ c.raised THEN documents' = documents
                 ELSE /\ Len(documents') = Len(documents) + 1
                      /\ documents'[c.doc_id].path = c.path
                      /\ documents'[c.doc_id].sha256 = c.sha
      ]_vars

\* a statement ingested as delimited text and met again, byte for byte,
\* under another name by the PDF parser: one documents row, as first stored
C15_Witness ==
    /\ Len(calls) = 2
    /\ calls[1].fn = "ingest_csv_ing" /\ calls[2].fn = "ingest_pdf_generic"
    /\ calls[1].sha = calls[2].sha /\ calls[1].path # calls[2].path
    /\ calls[1].docs_new = 1 /\ calls[2].docs_new = 0
    /\ Len(documents) = 1
    /\ documents[1].path = calls[1].path /\ documents[1].source_type = "csv"
    /\ Len(parse_events) > Len(calls[1].events)

(***************************************************************************)
(* Amount parsing on bounded inputs                                        *)
(***************************************************************************)
MaxAmtLen == 4
AmtAlphabet == {"0", "1", "5", ".", ",", "-", "+", " ", "NBSP"}
AmtExamples == {
    <<"1", ".", "2", "3", "4", ",", "5", "6">>,
    <<"5", "0", ",", "0", "0">>,
    <<"-", "5", "0", ",", "0", "0">>,
    <<"+", "1", "NBSP", "2", "3", "4", ",", "5", "6">>,
    <<"2", ",", "6", "7", "5">>,
    <<"1", "2", ".", "3", "4", "5", ",", "6", "7">> }
AmtStrings == UNION {[1..n -> AmtAlphabet] : n \in 0..MaxAmtLen} \cup AmtExamples
DirTokens == { <<"A", "f">>, <<" ", "a", "F", " ">>, <<"B", "i", "j">>, <<>> }

Pending == [exc |-> "pending", val |-> 0]

StoreInit == /\ documents = <<>>
             /\ accounts = <<>>
             /\ transactions = <<>>
             /\ parse_events = <<>>
             /\ categories = <<>>
             /\ committed = [documents |-> <<>>, accounts |-> <<>>,
                             transactions |-> <<>>, parse_events |-> <<>>]
             /\ modules = {}
             /\ calls = <<>>

InitAmount == /\ StoreInit
              /\ fin \in [op : {"amount"}, amt : AmtStrings, dc : DirTokens]
              /\ fout = Pending

ApplyAmount == /\ fin.op = "amount"
               /\ fout = Pending
               /\ fout' = parse_eu_amount_to_cents(fin.amt, fin.dc)
               /\ UNCHANGED <<fin, storeVars>>

NextAmount == ApplyAmount
SpecAmount == InitAmount /\ [][NextAmount]_vars

\* The amount format of the bank export, read independently of the parser:
\* [sign] integer part [, fraction], the integer part either plain digits or
\* groups of three digits separated by '.' or a non-breaking space
EuUnsigned(s) == IF s # <<>> /\ Head(s) \in {"+", "-"} THEN Tail(s) ELSE s
EuCommaAt(s) == IF Contains(s, ",") THEN CHOOSE i \in 1..Len(s) : s[i] = "," ELSE Len(s) + 1
EuIntPart(s) == SubSeq(EuUnsigned(s), 1, EuCommaAt(EuUnsigned(s)) - 1)
EuFraction(s) == SubSeq(EuUnsigned(s), EuCommaAt(EuUnsigned(s)) + 1, Len(EuUnsigned(s)))
EuGrouped(ip) == /\ Len(ip) > 0
                 /\ \A i \in 1..Len(ip) :
                       IF (Len(ip) - i + 1) % 4 = 0 /\ i > 1
                       THEN ip[i] \in {".", "NBSP"}
                       ELSE IsDigit(ip[i])
IsEuAmount(s) ==
    /\ StrIsDigit(EuIntPart(s)) \/ EuGrouped(EuIntPart(s))
    /\ Contains(EuUnsigned(s), ",") => StrIsDigit(EuFraction(s))
EuMantissa(s) == DigitsToInt(SelectSeq(s, IsDigit))
EuIsAf(t) == Lower(Strip(t)) = <<"a", "f">>

\* C6: for every amount string in decimal-comma format (optional '.' or NBSP
\* thousands separators, optional leading sign) parse_eu_amount_to_cents
\* returns the magnitude in cents rounded to the nearest cent, negated when
\* the direction token is 'Af' (trimmed, case-insensitive) and non-negative
\* otherwise, whatever sign character the string carries; '1.234,56' with a
\* credit token gives 123456 and '50,00' with 'Af' gives -5000.
C6_AmountParsing ==
    (fin.op = "amount" /\ fout # Pending /\ IsEuAmount(fin.amt)) =>
        LET m == EuMantissa(fin.amt)
            k == Len(EuFraction(fin.amt))
            c == Abs(fout.val)
        IN /\ fout.exc = ""
           /\ 2 * Abs(c * Pow10(k) - 100 * m) <= Pow10(k)
           /\ fout.val = IF EuIsAf(fin.dc) THEN 0 - c ELSE c
           /\ (fin.amt = <<"1", ".", "2", "3", "4", ",", "5", "6">> /\ ~EuIsAf(fin.dc))
                 => fout.val = 123456
           /\ (fin.amt = <<"5", "0", ",", "0", "0">> /\ EuIsAf(fin.dc))
                 => fout.val = 0 - 5000

\* a signed amount with a thousands separator has been parsed as a credit
C6_Witness ==
    /\ fin.op = "amount"
    /\ fin.amt = <<"+", "1", "NBSP", "2", "3", "4", ",", "5", "6">>
    /\ fin.dc = <<"B", "i", "j">>
    /\ fout = Return(123456)

(***************************************************************************)
(* Fingerprints of descriptions that differ in volatile substrings         *)
(***************************************************************************)
MaxItems == 3
\* A description template is a sequence of items: plain text, or a volatile
\* field.  Each volatile field has two spellings; the 'Apple Pay' marker is
\* present in the first and absent in the second.
PlainItems == {"space", "word", "digit", "letter"}
VolatileItems == {"datumtijd", "pasvolgnr", "term", "applepay", "transactie"}
ItemText(item, variant) ==
    CASE item = "space" -> <<" ">>
      [] item = "word" -> <<"A", "H">>
      [] item = "digit" -> <<"7">>
      [] item = "letter" -> <<"x">>
      [] item = "datumtijd" ->
           IF variant = 1 THEN <<"D", "a", "t", "u", "m", "/", "T", "i", "j", "d", ":", " ", "0", "1", "-", "0", "2", "-", "2", "0", "2", "3", " ", "1", "0", ":", "1", "1", ":", "1", "2">>
           ELSE <<"d", "a", "t", "u", "m", "/", "t", "i", "j", "d", ":", "2", "8", "-", "0", "2", "-", "2", "0", "2", "4", " ", " ", "2", "3", ":", "5", "9", ":", "0", "1">>
      [] item = "pasvolgnr" ->
           IF variant = 1 THEN <<"P", "a", "s", "v", "o", "l", "g", "n", "r", ":", " ", "0", "0", "1">> ELSE <<"P", "A", "S", "V", "O", "L", "G", "N", "R", ":", "2", "7">>
      [] item = "term" ->
           IF variant = 1 THEN <<"T", "e", "r", "m", ":", " ", "A", "B", "1", "2">> ELSE <<"T", "e", "r", "m", ":", "x", "9">>
      [] item = "transactie" ->
           IF variant = 1 THEN <<"T", "r", "a", "n", "s", "a", "c", "t", "i", "e", ":", " ", "T", "1">> ELSE <<"T", "r", "a", "n", "s", "a", "c", "t", "i", "e", ":", "Z", "7", "7", "q">>
      [] item = "applepay" ->
           IF variant = 1 THEN <<"A", "p", "p", "l", "e", " ", "P", "a", "y">> ELSE <<>>

RECURSIVE Instantiate(_, _)
Instantiate(tpl, variant) ==
    IF tpl = <<>> THEN <<>>
    ELSE ItemText(Head(tpl), variant) \o Instantiate(Tail(tpl), variant)

Templates == UNION {[1..n -> PlainItems \cup VolatileItems] : n \in 0..MaxItems}

\* the fingerprint of a transaction with description desc, other fields fixed
FingerprintOf(acct, dc, desc) ==
    compute_txn_hash([account_id |-> acct,
                      booking_date |-> <<"2", "0", "2", "3", "-", "0", "1", "-", "1", "5">>,
                      value_date |-> None,
                      amount_cents |-> IF dc = <<"D", "E", "B", "I", "T">> THEN 0 - 5000 ELSE 5000,
                      currency |-> <<"E", "U", "R">>,
                      debit_credit |-> dc,
                      counterparty_iban_or_name |-> <<"A", "l", "b", "e", "r", "t", " ", "H", "e", "i", "j", "n">>,
                      normalized_description |-> normalize_description(desc)])

InitDesc == /\ StoreInit
            /\ fin \in [op : {"desc"}, tpl : Templates, acct : 1..2,
                        dc : {<<"D", "E", "B", "I", "T">>, <<"C", "R", "E", "D", "I", "T">>}]
            /\ fout = [exc |-> "pending", h1 |-> <<>>, h2 |-> <<>>]

ApplyDesc == /\ fin.op = "desc"
             /\ fout.exc = "pending"
             /\ fout' = [exc |-> "",
                         h1 |-> FingerprintOf(fin.acct, fin.dc, Instantiate(fin.tpl, 1)),
                         h2 |-> FingerprintOf(fin.acct, fin.dc, Instantiate(fin.tpl, 2))]
             /\ UNCHANGED <<fin, storeVars>>

NextDesc == ApplyDesc
SpecDesc == InitDesc /\ [][NextDesc]_vars

\* every volatile field of the template ends at whitespace or at the end of
\* the description, as in the bank's notes column
FieldsDelimited(tpl) ==
    \A i \in 1..Len(tpl) :
        tpl[i] \in VolatileItems => (i = Len(tpl) \/ tpl[i + 1] = "space")

DirParsers == {"csv", "xls", "pdf"}
DirBases == { <<"1", "2", ",", "5", "0">>, <<"1", ".", "2", "3", "4", ",", "5", "6">>, <<"0", ",", "0", "1">> }
DirSigns == { <<>>, <<"-">>, <<"+">> }
DirRowTokens == { <<"A", "f">>, <<"B", "i", "j">> }

\* the row with amount text amt and direction token in the format of parser
DirCsvRow(amt, token) ==
    [CsvRowsA[1] EXCEPT !["Bedrag (EUR)"] = amt, !["Af Bij"] = token]
DirXlsRow(amt, token) ==
    << StrCell(<<"2", "0", "2", "3", "0", "1", "1", "5">>), StrCell(<<"B", "a", "k", "k", "e", "r">>), StrCell(IBAN1), StrCell(<<>>),
       StrCell(token), StrCell(amt), StrCell(<<>>) >>
DirPdfLines(amt, token) ==
    << <<"1", "5", "-", "0", "1", "-", "2", "0", "2", "3", " ", "B", "a", "k", "k", "e", "r", " ">> \o token \o <<" ">> \o amt >>

\* the fields the parser extracts from the row
DirFields(parser, amt, token) ==
    CASE parser = "csv" -> CsvRowFields(DirCsvRow(amt, token))
      [] parser = "xls" -> XlsRowFields(DirXlsRow(amt, token), XlsHeadersA,
                                        {"xlrd", "openpyxl", "pdfplumber"})
      [] parser = "pdf" ->
           PdfRowFields(iter_tx_candidates(extract_lines(DirPdfLines(amt, token)))[1])

\* the direction and the amount the parser stores for the fields f
DirStored(f) ==
    IF f.exc # "" THEN [exc |-> f.exc, debit_credit |-> <<>>, amount_cents |-> 0]
    ELSE [exc |-> "", debit_credit |-> DirectionOf(f.debit_credit),
          amount_cents |-> f.amount_cents]
DirOutcome(parser, amt, token) == DirStored(DirFields(parser, amt, token))

InitDir == /\ StoreInit
           /\ fin \in [op : {"dir"}, parser : DirParsers, base : DirBases,
                       s1 : DirSigns, s2 : DirSigns, token : DirRowTokens]
           /\ fout = Pending

ApplyDir(parser) ==
    /\ fin.op = "dir" /\ fin.parser = parser
    /\ fout = Pending
    /\ fout' = [exc |-> "", r1 |-> DirOutcome(parser, fin.s1 \o fin.base, fin.token),
                            r2 |-> DirOutcome(parser, fin.s2 \o fin.base, fin.token)]
    /\ UNCHANGED <<fin, storeVars>>

DirCsv == ApplyDir("csv")
DirXls == ApplyDir("xls")
DirPdf == ApplyDir("pdf")
NextDir == DirCsv \/ DirXls \/ DirPdf
SpecDir == InitDir /\ [][NextDir]_vars

\* C10: in every parser two rows that differ only in a sign character of
\* the raw amount string get the same direction and the same stored
\* amount: neither is inferred from the amount string.
C10_DirectionFromToken ==
    (fin.op = "dir" /\ fout # Pending) =>
        /\ fout.r1.exc = "" /\ fout.r2.exc = ""
        /\ fout.r1 = fout.r2

\* the accounts table when call n ended
CallAccsAfter(n) == IF n = Len(calls) THEN accounts ELSE calls[n + 1].accs_before

\* the (institution, iban, account_no) tuples call n referred to that had
\* no accounts row when it began
FirstReferences(n) ==
    {<<k[1], k[2], k[3]>> : k \in {r \in calls[n].resolved :
        SelectAccountId(calls[n].accs_before, r[1], r[2], r[3]) = 0}}

\* C18: the accounts table holds at most one row per (institution, IBAN,
\* account number) tuple, nulls comparing equal; a call adds one row for each
\* tuple it is the first to refer to and no other row, so re-ingesting and
\* further documents of the same account, PDF documents with or without an
\* IBAN included, add none.
C18_AccountRowUnique ==
    /\ \A i, j \in 1..Len(accounts) : accounts[i] = accounts[j] => i = j
    /\ \A n \in 1..Len(calls) :
           /\ Len(CallAccsAfter(n)) >= Len(calls[n].accs_before)
           /\ SubSeq(CallAccsAfter(n), 1, Len(calls[n].accs_before)) = calls[n].accs_before
           /\ Len(CallAccsAfter(n)) = Len(calls[n].accs_before) + Cardinality(FirstReferences(n))

\* two PDF documents without an IBAN and a third ingest of a statement of an
\* account already known: one row for the unknown bucket, none added by the
\* later calls
C18_Witness ==
    /\ Len(calls) = 2
    /\ calls[1].fn = "ingest_pdf_generic" /\ calls[2].fn = "ingest_pdf_generic"
    /\ calls[1].doc_id # calls[2].doc_id
    /\ \E r \in calls[1].resolved : IsUnknownBucket(r) /\ r \in calls[2].resolved
    /\ calls[2].tx_new > 0
    /\ Len(accounts) = 1
    /\ FirstReferences(2) = {}

\* the counterparty reference of a row or of a stored transaction
CounterpartyRef(f) ==
    IF f.counterparty_iban # None THEN f.counterparty_iban
    ELSE IF f.counterparty_name # None THEN f.counterparty_name
    ELSE <<>>

\* the canonical tuple of a parsed row: account, booking date, value date,
\* amount, currency, direction, counterparty reference and normalized
\* description, the texts without regard to case
CanonicalTuple(f) ==
    <<OrNone(f.account_str), f.booking_iso, f.value_date, f.amount_cents, EUR,
      DirectionOf(f.debit_credit), Upper(normalize_text(CounterpartyRef(f))),
      Upper(normalize_description(f.description))>>

\* the rows of the file of call i that parse
ParsedRows(i) == SelectSeq(CallRowFields(i), LAMBDA f : f.exc = "")

\* the tuple of the values f[i], f[i + 1], ... of a finite sequence f
RECURSIVE TupleFrom(_, _)
TupleFrom(f, i) == IF i > Len(f) THEN <<>> ELSE <<f[i]>> \o TupleFrom(f, i + 1)

\* the rows of every delimited-text and spreadsheet file in the fields the
\* parser extracts, under every configuration of the libraries (the value of
\* CallRowFields for a call on the file), tabulated once
FileRowTable ==
    {[fn |-> "ingest_csv_ing", sha |-> f.bytes, mods |-> m,
      rows |-> TupleFrom([r \in 1..Len(CsvContent(f.bytes).rows) |->
                             CsvRowFields(CsvContent(f.bytes).rows[r])], 1)] :
        f \in CsvFiles, m \in ModuleConfigs}
    \cup
    {[fn |-> "ingest_xls", sha |-> f.bytes, mods |-> m,
      rows |-> TupleFrom([r \in 1..Len(XlsContent(f.bytes).rows) |->
                             XlsRowFields(XlsContent(f.bytes).rows[r],
                                          XlsContent(f.bytes).headers, m)], 1)] :
        f \in XlsFiles, m \in ModuleConfigs}

\* the canonical tuples of the rows among rows that parse
CanonicalTuples(rows) ==
    {CanonicalTuple(rows[r]) : r \in {n \in 1..Len(rows) : rows[n].exc = ""}}

\* per file and configuration: the number of rows, the number of rows that
\* do not parse, and the canonical tuples of the others
FileTupleTable ==
    {[fn |-> e.fn, sha |-> e.sha, mods |-> e.mods, seen |-> Len(e.rows),
      failed |-> Cardinality({n \in 1..Len(e.rows) : e.rows[n].exc # ""}),
      tuples |-> CanonicalTuples(e.rows)] : e \in FileRowTable}

\* the descriptions of the rows and candidates of the files, each with its
\* normalized form in upper case, tabulated once
FileDescriptions ==
    UNION {{e.rows[n].description : n \in {r \in 1..Len(e.rows) : e.rows[r].exc = ""}} :
              e \in FileRowTable}
    \cup UNION {{iter_tx_candidates(extract_lines(PdfContent(f.bytes).raw))[n].desc :
                    n \in 1..Len(iter_tx_candidates(extract_lines(PdfContent(f.bytes).raw)))} :
                 f \in {g \in PdfFiles : PdfContent(g.bytes).exc = ""}}
DescriptionTable == {<<d, Upper(normalize_description(d))>> : d \in FileDescriptions}
CanonicalDescription(d) ==
    IF \E p \in DescriptionTable : p[1] = d
    THEN (CHOOSE p \in DescriptionTable : p[1] = d)[2]
    ELSE Upper(normalize_description(d))

\* the canonical tuple read back from a stored transaction
CanonicalOfStored(t, accs) ==
    <<accs[t.account_id].iban, t.booking_date, t.value_date, t.amount_cents, t.currency,
      t.debit_credit, Upper(normalize_text(CounterpartyRef(t))),
      CanonicalDescription(t.description)>>

\* the rows of the transactions table txs of accounts known by IBAN, each
\* with its canonical tuple
StoredTuples(txs) ==
    {<<k, CanonicalOfStored(txs[k], accounts)>> :
        k \in {n \in 1..Len(txs) : accounts[txs[n].account_id].account_no = None}}

\* the counts of C20 for call i: file the table entry of its file, after
\* the stored tuples when it returned, of which the first Len(tx_before)
\* rows were there before
DuplicatesCollapsed(i, file, after) ==
    /\ SubSeq(CallTxAfter(i), 1, Len(calls[i].tx_before)) = calls[i].tx_before
    /\ \A c \in file.tuples : Cardinality({p \in after : p[2] = c}) = 1
    /\ calls[i].tx_seen = file.seen
    /\ calls[i].tx_new =
           Cardinality({c \in file.tuples :
                           \A p \in after : p[1] <= Len(calls[i].tx_before) => p[2] # c})
    /\ Len(CallFailedWritten(i)) = file.failed

\* C20: rows of one file with equal canonical tuples are stored as one
\* transaction: when a delimited-text or spreadsheet call has returned, each
\* canonical tuple of the file has exactly one transactions row, tx_seen
\* counts every row of the file, tx_new counts one per canonical tuple that
\* was not stored before, and the only failed events of the call are those
\* of rows that do not parse.  (Stated of the call that has just returned:
\* every call is the last one, and the table as it left it, in the state it
\* leaves.)
C20_InFileDuplicates ==
    \A i \in {Len(calls)} \ {0} :
        ( /\ calls[i].fn \in {"ingest_csv_ing", "ingest_xls"} /\ ~calls[i].raised
          /\ transactions = CallTxAfter(i)
          /\ Readable(i) ) =>
            /\ \E file \in FileTupleTable :
                   file.fn = calls[i].fn /\ file.sha = calls[i].sha /\ file.mods = modules
            /\ \A file \in {e \in FileTupleTable : /\ e.fn = calls[i].fn
                                                   /\ e.sha = calls[i].sha
                                                   /\ e.mods = modules} :
                   \E after \in {StoredTuples(CallTxAfter(i))} :
                       DuplicatesCollapsed(i, file, after)

\* the first ingest of a statement whose first two rows are the same card
\* payment with other terminal data: three rows seen, two stored, no failed
\* event
C20_Witness ==
    /\ Len(calls) >= 1
    /\ calls[1].fn = "ingest_csv_ing" /\ ~calls[1].raised
    /\ Len(CallRowFields(1)) = 3 /\ Len(ParsedRows(1)) = 3
    /\ CallRowFields(1)[1] # CallRowFields(1)[2]
    /\ CanonicalTuple(CallRowFields(1)[1]) = CanonicalTuple(CallRowFields(1)[2])
    /\ calls[1].tx_seen = 3 /\ calls[1].tx_new = 2
    /\ Len(CallTxAfter(1)) = 2
    /\ CallFailedWritten(1) = <<>>

(***************************************************************************)
(* Two ingestion runs on connections of their own                          *)
(*                                                                         *)
(* The database file takes one writer at a time: the first INSERT of a     *)
(* connection's transaction takes the write lock, held until the commit or *)
(* the close of the connection.  A connection without the lock reads the   *)
(* committed tables; one that needs the lock while the other holds it      *)
(* waits, and gets "database is locked" when the wait exceeds the timeout  *)
(* of sqlite3.connect.  Here `committed` is the database file and the      *)
(* table variables are the view of the connection that holds the lock.     *)
(***************************************************************************)
Runs == {1, 2}
ConcFiles == {[path |-> "a.csv", bytes |-> 1], [path |-> "copy_of_a.csv", bytes |-> 1],
              [path |-> "b.csv", bytes |-> 2]}

\* documents(content_hash UNIQUE)
DocHashConflict(docs, sha) == \E i \in 1..Len(docs) : docs[i].sha256 = sha

\* a run about to execute the first statement of ingest_csv_ing
RunStart(file) ==
    [pc |-> "select_doc", file |-> file, doc_id |-> 0, docs_new |-> 0, row |-> 1,
     tx_seen |-> 0, tx_new |-> 0, exc |-> ""]

InitConc == /\ StoreInit
            /\ fin \in [op : {"conc"}, f1 : ConcFiles, f2 : ConcFiles]
            /\ fout = [lock |-> 0, run |-> <<RunStart(fin.f1), RunStart(fin.f2)>>]

\* the tables a statement of run c reads
ViewOf(c) == IF fout.lock = c THEN Tables ELSE committed
\* run c can take or has the write lock
CanWrite(c) == fout.lock \in {0, c}

\* the run raises: the driver closes the connection, the transaction of
\* the connection, if it has one, is rolled back and its lock released
RunRaises(c, exc) ==
    /\ fout' = [lock |-> IF fout.lock = c THEN 0 ELSE fout.lock,
                run |-> [fout.run EXCEPT ![c].pc = "raised", ![c].exc = exc]]
    /\ documents' = ViewOf(3 - c).documents
    /\ accounts' = ViewOf(3 - c).accounts
    /\ transactions' = ViewOf(3 - c).transactions
    /\ parse_events' = ViewOf(3 - c).parse_events
    /\ UNCHANGED <<categories, committed, modules, calls, fin>>

\* SELECT id FROM documents WHERE sha256=?
ConcSelectDoc(c) ==
    /\ fin.op = "conc" /\ fout.run[c].pc = "select_doc"
    /\ \E found \in {DocumentIdOf(ViewOf(c).documents, sha256_file(fout.run[c].file))} :
           fout' = [fout EXCEPT !.run[c].doc_id = found,
                                !.run[c].pc = IF found # 0 THEN "insert_event"
                                              ELSE "insert_doc"]
    /\ UNCHANGED <<storeVars, fin>>

\* INSERT INTO documents(...): IntegrityError when the other run has
\* committed the same content since the lookup
ConcInsertDoc(c) ==
    /\ fin.op = "conc" /\ fout.run[c].pc = "insert_doc"
    /\ CanWrite(c)
    /\ IF DocHashConflict(documents, sha256_file(fout.run[c].file))
       THEN RunRaises(c, "IntegrityError")
       ELSE /\ documents' = Append(documents,
                                   [path |-> fout.run[c].file.path,
                                    sha256 |-> sha256_file(fout.run[c].file),
                                    source_type |-> "csv", bank_hint |-> ING])
            /\ fout' = [lock |-> c,
                        run |-> [fout.run EXCEPT ![c].doc_id = Len(documents) + 1,
                                                 ![c].docs_new = 1,
                                                 ![c].pc = "insert_event"]]
            /\ UNCHANGED <<accounts, transactions, parse_events, categories, committed,
                           modules, calls, fin>>

\* INSERT INTO parse_events(...) of the 'ingest' event
ConcInsertEvent(c) ==
    /\ fin.op = "conc" /\ fout.run[c].pc = "insert_event"
    /\ CanWrite(c)
    /\ parse_events' = Append(parse_events,
           IF fout.run[c].docs_new = 0
           THEN Event(fout.run[c].doc_id, "ingest", 1,
                      "Already imported; reprocessing parse only", "", 0, 0)
           ELSE Event(fout.run[c].doc_id, "ingest", 1, "New document imported", "", 0, 0))
    /\ fout' = [lock |-> c, run |-> [fout.run EXCEPT ![c].pc = "rows"]]
    /\ UNCHANGED <<documents, accounts, transactions, categories, committed, modules,
                   calls, fin>>

\* one iteration of "for row in reader", by the run that holds the lock
ConcRow(c) ==
    /\ fin.op = "conc" /\ fout.run[c].pc = "rows" /\ fout.lock = c
    /\ fout.run[c].row <= Len(CsvContent(fout.run[c].file.bytes).rows)
    /\ \E st \in {CsvRow([RowState(parse_events) EXCEPT !.tx_seen = fout.run[c].tx_seen,
                                                       !.tx_new = fout.run[c].tx_new],
                         fout.run[c].doc_id,
                         CsvContent(fout.run[c].file.bytes).rows[fout.run[c].row])} :
           /\ accounts' = st.accounts
           /\ transactions' = st.transactions
           /\ parse_events' = st.parse_events
           /\ fout' = [fout EXCEPT !.run[c].row = @ + 1,
                                   !.run[c].tx_seen = st.tx_seen,
                                   !.run[c].tx_new = st.tx_new]
    /\ UNCHANGED <<documents, categories, committed, modules, calls, fin>>

\* the summary event and conn.commit()
ConcCommit(c) ==
    /\ fin.op = "conc" /\ fout.run[c].pc = "rows" /\ fout.lock = c
    /\ fout.run[c].row > Len(CsvContent(fout.run[c].file.bytes).rows)
    /\ \E ev \in {Append(parse_events,
                         Event(fout.run[c].doc_id, "parse", 1, "parsed rows", "",
                               fout.run[c].tx_seen, fout.run[c].tx_new))} :
           /\ parse_events' = ev
           /\ committed' = [documents |-> documents, accounts |-> accounts,
                            transactions |-> transactions, parse_events |-> ev]
    /\ fout' = [lock |-> 0, run |-> [fout.run EXCEPT ![c].pc = "returned"]]
    /\ UNCHANGED <<documents, accounts, transactions, categories, modules, calls, fin>>

\* the wait for the write lock exceeds the timeout: OperationalError
\* ("database is locked"), raised outside the try block of the rows
ConcBusyTimeout(c) ==
    /\ fin.op = "conc" /\ fout.run[c].pc \in {"insert_doc", "insert_event"}
    /\ ~CanWrite(c)
    /\ RunRaises(c, "OperationalError")

NextConc == \E c \in Runs : \/ ConcSelectDoc(c) \/ ConcInsertDoc(c) \/ ConcInsertEvent(c)
                            \/ ConcRow(c) \/ ConcCommit(c) \/ ConcBusyTimeout(c)
SpecConc == InitConc /\ [][NextConc]_vars

\* C16: when two runs on separate connections ingest the same file, or
\* files with the same account, in any interleaving, neither run raises,
\* and once both are done every fingerprint is stored once, counted new by
\* exactly one run, with one documents row per content and one accounts row
\* per identity.
C16_ConcurrentWriters ==
    fin.op = "conc" =>
        /\ \A c \in Runs : fout.run[c].pc # "raised"
        /\ (\A c \in Runs : fout.run[c].pc = "returned") =>
              /\ \A i, j \in 1..Len(committed.transactions) :
                     committed.transactions[i].txn_hash = committed.transactions[j].txn_hash
                         => i = j
              /\ fout.run[1].tx_new + fout.run[2].tx_new = Len(committed.transactions)
              /\ \A i, j \in 1..Len(committed.accounts) :
                     committed.accounts[i] = committed.accounts[j] => i = j
              /\ \A i, j \in 1..Len(committed.documents) :
                     committed.documents[i].sha256 = committed.documents[j].sha256 => i = j

(***************************************************************************)
(* Worksheets with semantic columns left out                               *)
(***************************************************************************)
\* the semantic columns of ingest_xls and their synonym tables
ColumnNames == [date |-> DatumNames, description |-> NameNames, account |-> RekNames,
                counterparty |-> TegenNames, direction |-> AfBijNames,
                amount |-> BedragNames, memo |-> MededNames]
SemanticColumns == DOMAIN ColumnNames

\* a legacy workbook whose first column is the amount, read as floats
XlsHeadersC == << <<"B", "e", "d", "r", "a", "g">>, <<"O", "m", "s", "c", "h", "r", "i", "j", "v", "i", "n", "g">>, <<"A", "f", " ", "B", "i", "j">>, <<"D", "a", "t", "u", "m">> >>
XlsRowsC == <<
    << FloatCell(1250, 0), StrCell(<<"H", "u", "u", "r">>), StrCell(<<"A", "f">>), StrCell(<<"2", "0", "2", "3", "0", "1", "0", "5">>) >>,
    << FloatCell(125, 1), StrCell(<<"B", "a", "k", "k", "e", "r">>), StrCell(<<"A", "f">>), StrCell(<<"2", "0", "2", "3", "0", "1", "0", "6">>) >>,
    << FloatCell(45000, 0), StrCell(<<"S", "a", "l", "a", "r", "i", "s">>), StrCell(<<"B", "i", "j">>), FloatCell(44948, 0) >> >>

ColBooks == {[headers |-> XlsHeadersA, rows |-> XlsRowsA],
             [headers |-> XlsHeadersB, rows |-> XlsRowsB],
             [headers |-> XlsHeadersC, rows |-> XlsRowsC]}

\* the positions of the columns of the set cols in the header row
ColPositions(headers, cols) == {HeaderIdx(headers, ColumnNames[c]) : c \in cols} \ {0}

\* the worksheet row (or header row) as the reader returns it when the
\* columns at the positions pos are not in the sheet
RECURSIVE WithoutCols(_, _, _)
WithoutCols(r, pos, i) ==
    IF i > Len(r) THEN <<>>
    ELSE (IF i \in pos THEN <<>> ELSE <<r[i]>>) \o WithoutCols(r, pos, i + 1)

\* the row when the columns are in the sheet and their cells are empty
EmptiedCols(r, pos) == [i \in 1..Len(r) |-> IF i \in pos THEN NoneCell ELSE r[i]]

InitCols == /\ StoreInit
            /\ fin \in UNION {{[op |-> "cols", headers |-> b.headers, r |-> b.rows[i],
                                dropped |-> d, mods |-> m] :
                                   i \in 1..Len(b.rows), d \in SUBSET SemanticColumns,
                                   m \in {{"xlrd", "openpyxl"}, {"openpyxl"}}} :
                              b \in ColBooks}
            /\ fout = Pending

\* the row fields ingest_xls computes for the row without the columns, and
\* for the row with the columns present and empty
ApplyCols ==
    /\ fin.op = "cols"
    /\ fout = Pending
    /\ \E pos \in {ColPositions(fin.headers, fin.dropped)} :
         fout' = [exc |-> "",
                  absent |-> XlsRowFields(WithoutCols(fin.r, pos, 1),
                                          WithoutCols(fin.headers, pos, 1), fin.mods),
                  emptied |-> XlsRowFields(EmptiedCols(fin.r, pos), fin.headers, fin.mods)]
    /\ UNCHANGED <<fin, storeVars>>

NextCols == ApplyCols
SpecCols == InitCols /\ [][NextCols]_vars

\* C17: a row of a sheet that lacks semantic columns gets the fields of the
\* same row with those columns present and empty, and without a date column
\* its booking date is empty
C17_MissingColumns ==
    (fin.op = "cols" /\ fout # Pending) =>
        /\ fout.absent = fout.emptied
        /\ ("date" \in fin.dropped /\ fout.absent.exc = "") => fout.absent.booking_iso = <<>>

(***************************************************************************)
(* spending_tools.py: spend_by_category                                    *)
(***************************************************************************)
\* the code point of a character of a stored date (the BINARY collation
\* compares texts byte by byte)
Ord(c) ==
    CASE c = " " -> 32
      [] c = "-" -> 45
      [] c = "." -> 46
      [] c = "/" -> 47
      [] IsDigit(c) -> 48 + DigitVal(c)
      [] \E i \in 1..26 : c = UpperLetters[i] -> 64 + (CHOOSE i \in 1..26 : c = UpperLetters[i])
      [] \E i \in 1..26 : c = LowerLetters[i] -> 96 + (CHOOSE i \in 1..26 : c = LowerLetters[i])
      [] OTHER -> 160

\* a <= b for two texts, from position i on
RECURSIVE TextLeq(_, _, _)
TextLeq(a, b, i) ==
    IF i > Len(a) THEN TRUE
    ELSE IF i > Len(b) THEN FALSE
    ELSE IF Ord(a[i]) # Ord(b[i]) THEN Ord(a[i]) < Ord(b[i])
    ELSE TextLeq(a, b, i + 1)

\* WHERE t.booking_date BETWEEN ? AND ?
Between(d, lo, hi) == d # None /\ TextLeq(lo, d, 1) /\ TextLeq(d, hi, 1)
InRange(txs, lo, hi) == SelectSeq(txs, LAMBDA t : Between(t.booking_date, lo, hi))

\* COALESCE(c.code, 'UNCATEGORIZED') of the LEFT JOIN on c.id = t.category_id
CatOf(t, cats) ==
    IF t.category_id \in 1..Len(cats) THEN cats[t.category_id].code ELSE "UNCATEGORIZED"

\* SUM(CASE WHEN t.debit_credit = dir THEN t.amount_cents ELSE 0 END) over
\* the group cat, from row i on
RECURSIVE SumCase(_, _, _, _, _)
SumCase(txs, cats, cat, dir, i) ==
    IF i > Len(txs) THEN 0
    ELSE (IF CatOf(txs[i], cats) = cat /\ txs[i].debit_credit = dir
          THEN txs[i].amount_cents ELSE 0)
         + SumCase(txs, cats, cat, dir, i + 1)

\* GROUP BY COALESCE(c.code, 'UNCATEGORIZED')
Groups(txs, cats) == {CatOf(txs[i], cats) : i \in 1..Len(txs)}

\* f"{cents/100:.2f}"
Format2(cents) ==
    (IF cents < 0 THEN <<"-">> ELSE <<>>)
    \o IntToStr(Abs(cents) \div 100) \o <<".">> \o Digits0(Abs(cents) % 100, 2)

\* one output line of the report
ReportLine(txs, cats, cat) ==
    [cat |-> cat, debit |-> Format2(SumCase(txs, cats, cat, DEBIT, 1)),
                  credit |-> Format2(SumCase(txs, cats, cat, CREDIT, 1))]

\* ORDER BY debit DESC: the orders of the groups the query may return
\* (groups with equal sums come in either order)
Orderings(txs, cats) ==
    {s \in [1..Cardinality(Groups(txs, cats)) -> Groups(txs, cats)] :
        /\ \A i, j \in DOMAIN s : s[i] = s[j] => i = j
        /\ \A i, j \in DOMAIN s :
               i < j => SumCase(txs, cats, s[i], DEBIT, 1) >= SumCase(txs, cats, s[j], DEBIT, 1)}

\* the date ranges asked for
ReportDates == {<<"2", "0", "2", "3", "-", "0", "1", "-", "0", "1">>, <<"2", "0", "2", "3", "-", "0", "1", "-", "1", "6">>, <<"2", "0", "2", "3", "-", "0", "1", "-", "2", "0">>, <<"2", "0", "2", "3", "-", "1", "2", "-", "3", "1">>}

\* spend_by_category(start_date, end_date) on a connection of its own: it
\* reads what is committed
spend_by_category(start_date, end_date) ==
    /\ fin.op = "none"
    /\ \E txs \in {InRange(committed.transactions, start_date, end_date)} :
       \E s \in Orderings(txs, categories) :
           /\ fin' = [op |-> "report", start_date |-> start_date, end_date |-> end_date]
           /\ fout' = [exc |-> "",
                       lines |-> [i \in DOMAIN s |-> ReportLine(txs, categories, s[i])]]
    /\ UNCHANGED storeVars

SpendByCategory == \E start_date, end_date \in ReportDates :
                       spend_by_category(start_date, end_date)

\* the command line: ingest, categorize, then one report
Ingesting == fin.op = "none" /\ Next
NextReport == Ingesting \/ SpendByCategory
SpecReport == Init /\ [][NextReport]_vars

\* the sum of the magnitudes of the transactions of direction dir in the
\* group cat
RECURSIVE MagnitudeSum(_, _, _, _, _)
MagnitudeSum(txs, cats, cat, dir, i) ==
    IF i > Len(txs) THEN 0
    ELSE (IF CatOf(txs[i], cats) = cat /\ txs[i].debit_credit = dir
          THEN Abs(txs[i].amount_cents) ELSE 0)
         + MagnitudeSum(txs, cats, cat, dir, i + 1)

ReportedRows == InRange(committed.transactions, fin.start_date, fin.end_date)

\* C19: the report has one line per category of the transactions booked in
\* the range (UNCATEGORIZED for those without one); its debit figure is the
\* sum of the magnitudes of the category's DEBIT transactions, its credit
\* figure that of its CREDIT transactions, and the lines come in descending
\* order of the debit magnitude.
C19_ReportTotals ==
    fin.op = "report" =>
        /\ {fout.lines[i].cat : i \in DOMAIN fout.lines} = Groups(ReportedRows, categories)
        /\ Len(fout.lines) = Cardinality(Groups(ReportedRows, categories))
        /\ \A i \in DOMAIN fout.lines :
               /\ fout.lines[i].debit =
                      Format2(MagnitudeSum(ReportedRows, categories, fout.lines[i].cat, DEBIT, 1))
               /\ fout.lines[i].credit =
                      Format2(MagnitudeSum(ReportedRows, categories, fout.lines[i].cat, CREDIT, 1))
        /\ \A i, j \in DOMAIN fout.lines :
               i < j => MagnitudeSum(ReportedRows, categories, fout.lines[i].cat, DEBIT, 1)
                        >= MagnitudeSum(ReportedRows, categories, fout.lines[j].cat, DEBIT, 1)

(***************************************************************************)
(* Worksheet rows whose amount cell holds a number                         *)
(***************************************************************************)
\* the magnitudes of the numeric cells: every mantissa up to MaxNum and the
\* amounts 50, 12.34 and 1250
MaxNum == 20
NumMantissas == (0..MaxNum) \cup {50, 1234, 1250}

\* a number with at most two decimals as the workbook readers return it: a
\* float m / 10^k (k minimal) of either sign, or an int
NumCells ==
    {FloatCell(sg * p[1], p[2]) :
        sg \in {1, 0 - 1},
        p \in {q \in NumMantissas \X (0..2) : q[2] = 0 \/ q[1] % 10 # 0}}
    \cup {IntCell(sg * m) : sg \in {1, 0 - 1}, m \in NumMantissas}

\* the sign cell of the row: debit, credit, or empty
NumTokens == {<<"A", "f">>, <<"B", "i", "j">>, <<>>}

NumHeaders == << <<"D", "a", "t", "u", "m">>, <<"B", "e", "d", "r", "a", "g", " ", "(", "E", "U", "R", ")">>, <<"A", "f", " ", "B", "i", "j">> >>
NumRow(amount, token) == << StrCell(<<"2", "0", "2", "3", "0", "1", "0", "5">>), amount, StrCell(token) >>

\* the decimal-comma spelling of the number in cell c
CommaSpelling(c) ==
    (IF c.m < 0 THEN <<"-">> ELSE <<>>)
    \o IntToStr(Abs(c.m) \div Pow10(c.k))
    \o (IF c.k = 0 THEN <<>> ELSE <<",">> \o Digits0(Abs(c.m) % Pow10(c.k), c.k))

InitNum == /\ StoreInit
           /\ fin \in [op : {"num"}, cell : NumCells, token : NumTokens]
           /\ fout = Pending

\* the row fields ingest_xls computes for the row with the numeric amount
\* cell, and for the row with the amount spelled as text
ApplyNum ==
    /\ fin.op = "num"
    /\ fout = Pending
    /\ fout' = [exc |-> "",
                numeric |-> XlsRowFields(NumRow(fin.cell, fin.token), NumHeaders,
                                         {"xlrd", "openpyxl"}),
                spelled |-> XlsRowFields(NumRow(StrCell(CommaSpelling(fin.cell)), fin.token),
                                         NumHeaders, {"xlrd", "openpyxl"})]
    /\ UNCHANGED <<fin, storeVars>>

NextNum == ApplyNum
SpecNum == InitNum /\ [][NextNum]_vars

\* C21: a row whose amount cell holds the number v is stored with an amount
\* of magnitude v * 100, the amount stored for the decimal-comma spelling of
\* v.
C21_NumericAmountCell ==
    (fin.op = "num" /\ fout # Pending) =>
        /\ fout.numeric.exc = ""
        /\ Abs(fout.numeric.amount_cents) = Abs(fin.cell.m) * Pow10(2 - fin.cell.k)
        /\ fout.numeric = fout.spelled

====
